---- MODULE Spec2Model ----
(***************************************************************************)
(* Model of picobot's tool layer (src/picobot/tools.py) and skill registry *)
(* (src/picobot/skills.py).                                                *)
(*                                                                         *)
(* Text is a sequence of one-character strings.  CR, LF and SUR stand for  *)
(* the carriage return, the line feed and a lone surrogate code point (a   *)
(* character of a Python str that UTF-8 cannot encode).                    *)
(***************************************************************************)
EXTENDS Integers, Sequences, FiniteSets, TLC

VARIABLES
    fs,        \* the workspace nodes: path -> [kind, content]
    store,     \* the cron store file .picobot/cron_jobs.json
    outbox,    \* the outbox file messages/outbox.log
    skills,    \* the workspace and the builtin skills directories
    last,      \* the call made last: its name and arguments
    ret,       \* what that call gave its caller: a result or a raised exception
    drivers    \* the cron call each driver process has in progress, and its position

vars == <<fs, store, outbox, skills, last, ret, drivers>>

----------------------------------------------------------------------------
(* Bounds of the model *)

MaxLen == 2          \* longest file content written and kept on disk
MaxArg == 1          \* longest old_text and new_text of edit_file

----------------------------------------------------------------------------
(* Characters and text *)

CR == "CR"
LF == "LF"
SUR == "SUR"

FileChar == {"a", CR, LF}
ArgChar == FileChar \cup {SUR}

BSeq(S, n) == UNION {[1..k -> S] : k \in 0..n}

Drop(s, n) == SubSeq(s, n + 1, Len(s))
Take(s, n) == SubSeq(s, 1, IF n < Len(s) THEN n ELSE Len(s))

StartsWith(s, p) == Len(p) <= Len(s) /\ SubSeq(s, 1, Len(p)) = p

\* s contains sub at some position (Python's `sub in s`)
Contains(s, sub) == \E i \in 0..(Len(s) - Len(sub)) : SubSeq(s, i + 1, i + Len(sub)) = sub

\* the number of positions of s at which sub starts
Positions(s, sub) == Cardinality({i \in 0..(Len(s) - Len(sub)) : SubSeq(s, i + 1, i + Len(sub)) = sub})

\* str.count: non-overlapping occurrences scanned from the left; the empty
\* text is counted once before every character and once at the end
RECURSIVE Count(_, _)
Count(s, sub) ==
    IF sub = <<>> THEN Len(s) + 1
    ELSE IF Len(s) < Len(sub) THEN 0
    ELSE IF StartsWith(s, sub) THEN 1 + Count(Drop(s, Len(sub)), sub)
    ELSE Count(Tail(s), sub)

\* a replace that inserts new before the leftmost occurrence and keeps old
RECURSIVE ReplaceFirstKeepsOld(_, _, _)
ReplaceFirstKeepsOld(s, old, new) ==
    IF StartsWith(s, old) THEN new \o s
    ELSE IF s = <<>> THEN <<>>
    ELSE <<Head(s)>> \o ReplaceFirstKeepsOld(Tail(s), old, new)

\* str.replace(old, new, 1): the leftmost occurrence only
RECURSIVE ReplaceFirst(_, _, _)
ReplaceFirst(s, old, new) ==
    IF StartsWith(s, old) THEN new \o Drop(s, Len(old))
    ELSE IF s = <<>> THEN <<>>
    ELSE <<Head(s)>> \o ReplaceFirst(Tail(s), old, new)

\* text-mode decoding with universal newlines (newline=None when reading):
\* CR LF and a lone CR both become LF
RECURSIVE ReadText(_)
ReadText(raw) ==
    IF raw = <<>> THEN <<>>
    ELSE IF Head(raw) = CR THEN
        IF Len(raw) >= 2 /\ raw[2] = LF THEN <<LF>> \o ReadText(Drop(raw, 2))
        ELSE <<LF>> \o ReadText(Tail(raw))
    ELSE <<Head(raw)>> \o ReadText(Tail(raw))

\* os.linesep of the platform the model describes (POSIX)
LineSep == <<LF>>

\* text-mode encoding (newline=None when writing): every LF becomes os.linesep
RECURSIVE WriteText(_)
WriteText(text) ==
    IF text = <<>> THEN <<>>
    ELSE IF Len(text) = 1 THEN (IF text[1] = LF THEN LineSep ELSE text)
    ELSE LET half == Len(text) \div 2
         IN  WriteText(SubSeq(text, 1, half)) \o WriteText(SubSeq(text, half + 1, Len(text)))

\* can UTF-8 encode the text
Encodable(text) == \A i \in 1..Len(text) : text[i] # SUR

----------------------------------------------------------------------------
(* The workspace *)

Absent == [kind |-> "absent", content |-> <<>>]
Dir == [kind |-> "dir", content |-> <<>>]
File(c) == [kind |-> "file", content |-> c]

\* the nodes of the workspace, and two nodes outside of it: /o and, in the
\* home directory of the user, /h/o
Nodes == {"f", "d", "n", "n/f", "messages", ".picobot", "/o", "/h/o"}

\* the directory that holds a node; "" is the workspace root, which exists
Parent(p) == IF p = "n/f" THEN "n" ELSE ""

Exists(f, p) == f[p].kind # "absent"
IsFile(f, p) == f[p].kind = "file"
IsDir(f, p) == f[p].kind = "dir"

\* Path.mkdir(parents=True, exist_ok=True) on the directory `d`: "ok" with
\* the resulting nodes, or the exception it raises
Mkdir(f, d) ==
    IF d = "" \/ IsDir(f, d) THEN [exc |-> "", fs |-> f]
    ELSE IF IsFile(f, d) THEN [exc |-> "FileExistsError", fs |-> f]
    ELSE [exc |-> "", fs |-> [f EXCEPT ![d] = Dir]]

\* Path.write_text(text, encoding="utf-8") on node p whose parent exists:
\* open(mode="w") truncates the file, then the text is encoded and written
WriteTextTo(f, p, text) ==
    IF Parent(p) # "" /\ ~IsDir(f, Parent(p)) THEN
        [exc |-> (IF IsFile(f, Parent(p)) THEN "NotADirectoryError" ELSE "FileNotFoundError"), fs |-> f]
    ELSE IF IsDir(f, p) THEN [exc |-> "IsADirectoryError", fs |-> f]
    ELSE IF ~Encodable(text) THEN [exc |-> "UnicodeEncodeError", fs |-> [f EXCEPT ![p] = File(<<>>)]]
    ELSE [exc |-> "", fs |-> [f EXCEPT ![p] = File(WriteText(text))]]

\* the store file .picobot/cron_jobs.json: absent, a text json.loads
\* rejects (such as the empty text), or the JSON text of a value
NoStore == [kind |-> "absent", json |-> FALSE, value |-> <<>>]
Unparsable == [kind |-> "file", json |-> FALSE, value |-> <<>>]
JsonFile(v) == [kind |-> "file", json |-> TRUE, value |-> v]
\* a store file holding valid JSON that is no array: null, or an object
\* such as {"a": 1}; and a directory at the path of the store file
JsonOther(shape) == [kind |-> "file", json |-> TRUE, value |-> <<>>, shape |-> shape]
StoreDir == [kind |-> "dir", json |-> FALSE, value |-> <<>>]
StoreShape(st) == IF "shape" \in DOMAIN st THEN st.shape ELSE "array"

\* the outbox file messages/outbox.log: absent, or its text
NoOutbox == [kind |-> "absent", text |-> <<>>]
OutboxFile(text) == [kind |-> "file", text |-> text]

\* no skills directory at all
NoSkills == [ws |-> FALSE, bi |-> FALSE]

----------------------------------------------------------------------------
(* Results *)

Returned(tag, v) == [t |-> tag, v |-> v]
Raised(exc) == [t |-> "raise", v |-> exc]

\* the call made last; `a` and `b` are its text arguments and `pre` the
\* node of its target before the call
Call(op, path, a, b, pre) == [op |-> op, path |-> path, a |-> a, b |-> b, pre |-> pre]

NoCall == Call("none", "", <<>>, <<>>, Absent)

\* the processes that call the tools of one workspace.  Each has at most
\* one cron call in progress: `pc` is its position in the call, `action`
\* the action called, `loaded` the list it loaded, `jobs` the list it
\* saves and `pending` what it returns once the list is saved.  `raced`
\* holds the ids of the jobs that calls of other drivers reported created
\* since this call loaded the store file, and `overlapped` tells whether
\* two calls were ever in progress together.
Drivers == {"d1", "d2"}
Idle ==
    [pc |-> "idle", action |-> "", loaded |-> <<>>, jobs |-> <<>>, pending |-> Returned("none", 0),
     raced |-> {}, overlapped |-> FALSE]
NoDrivers == [d \in Drivers |-> Idle]

----------------------------------------------------------------------------
(* File tools *)

\* what read_file(path) returns on the nodes f
ReadFileResult(f, path) ==
    IF ~Exists(f, path) THEN Returned("Error: File not found", path)
    ELSE IF ~IsFile(f, path) THEN Returned("Error: Not a file", path)
    ELSE Returned("text", ReadText(f[path].content))

read_file(path) ==
    /\ ret' = ReadFileResult(fs, path)
    /\ last' = Call("read_file", path, <<>>, <<>>, fs[path])
    /\ UNCHANGED <<fs, store, outbox, skills, drivers>>

\* the nodes and the result of write_file(path, content)
WriteFileOutcome(f, path, content) ==
    LET made == Mkdir(f, Parent(path))
        wrote == WriteTextTo(made.fs, path, content)
    IN  IF made.exc # "" THEN [fs |-> f, ret |-> Returned("Error writing file", made.exc)]
        ELSE IF wrote.exc # "" THEN [fs |-> wrote.fs, ret |-> Returned("Error writing file", wrote.exc)]
        ELSE [fs |-> wrote.fs, ret |-> Returned("Successfully wrote", Len(content))]

write_file(path, content) ==
    LET out == WriteFileOutcome(fs, path, content)
    IN  /\ fs' = out.fs
        /\ ret' = out.ret
        /\ last' = Call("write_file", path, content, <<>>, fs[path])
        /\ UNCHANGED <<store, outbox, skills, drivers>>

\* an edit_file that lacks the `count > 1` return and edits the leftmost of
\* several occurrences
EditFileFirstOfMany(f, path, old_text, new_text) ==
    IF ~Exists(f, path) THEN [fs |-> f, ret |-> Returned("Error: File not found", path)]
    ELSE IF ~IsFile(f, path) THEN [fs |-> f, ret |-> Returned("Error: Not a file", path)]
    ELSE
        LET content == ReadText(f[path].content)
            count == Count(content, old_text)
            wrote == WriteTextTo(f, path, ReplaceFirst(content, old_text, new_text))
        IN  IF count = 0 THEN [fs |-> f, ret |-> Returned("Error: old_text not found in file", 0)]
            ELSE IF wrote.exc # "" THEN [fs |-> wrote.fs, ret |-> Returned("Error editing file", wrote.exc)]
            ELSE [fs |-> wrote.fs, ret |-> Returned("Successfully edited", path)]

\* the nodes and the result of edit_file(path, old_text, new_text)
EditFileOutcome(f, path, old_text, new_text) ==
    IF ~Exists(f, path) THEN [fs |-> f, ret |-> Returned("Error: File not found", path)]
    ELSE IF ~IsFile(f, path) THEN [fs |-> f, ret |-> Returned("Error: Not a file", path)]
    ELSE
        LET content == ReadText(f[path].content)
            count == Count(content, old_text)
            wrote == WriteTextTo(f, path, ReplaceFirst(content, old_text, new_text))
        IN  IF count = 0 THEN [fs |-> f, ret |-> Returned("Error: old_text not found in file", 0)]
            ELSE IF count > 1 THEN [fs |-> f, ret |-> Returned("Warning: old_text appears", count)]
            ELSE IF wrote.exc # "" THEN [fs |-> wrote.fs, ret |-> Returned("Error editing file", wrote.exc)]
            ELSE [fs |-> wrote.fs, ret |-> Returned("Successfully edited", path)]

edit_file(path, old_text, new_text) ==
    LET out == EditFileOutcome(fs, path, old_text, new_text)
    IN  /\ Len(out.fs[path].content) <= MaxLen
        /\ fs' = out.fs
        /\ ret' = out.ret
        /\ last' = Call("edit_file", path, old_text, new_text, fs[path])
        /\ UNCHANGED <<store, outbox, skills, drivers>>

\* the paths the file tools are called with: a file of the workspace
\* root, a directory, and a file whose parent directory is created on demand
FilePaths == {"f", "d", "n/f"}

\* the texts the tools are called with: every text for "f", one text
\* elsewhere.  An old_text is made of characters that decoded text can
\* hold; a new_text of a letter, CR (which reads back as LF) and SUR.
Contents(p) == IF p = "f" THEN BSeq(ArgChar, MaxLen) ELSE {<<"a">>}
OldTexts(p) == IF p = "f" THEN BSeq({"a", LF}, MaxArg) ELSE {<<"a">>}
NewTexts(p) == IF p = "f" THEN BSeq({"a", CR, SUR}, MaxArg) ELSE {<<"a">>}

InitFs == [p \in Nodes |-> IF p = "d" THEN Dir ELSE Absent]

InitFile ==
    /\ fs = InitFs
    /\ store = NoStore
    /\ outbox = NoOutbox
    /\ skills = NoSkills
    /\ drivers = NoDrivers
    /\ last = NoCall
    /\ ret = Returned("none", 0)

NextFile ==
    \/ \E p \in FilePaths : read_file(p)
    \/ \E p \in FilePaths : \E c \in Contents(p) : write_file(p, c)
    \/ \E p \in FilePaths : \E o \in OldTexts(p), n \in NewTexts(p) : edit_file(p, o, n)

SpecFile == InitFile /\ [][NextFile]_vars

----------------------------------------------------------------------------
(* Path arguments.  A path is a sequence of segments; a first segment "/"  *)
(* makes it absolute and a first segment "~" stands for the home directory *)

Workspace == <<"w">>     \* the workspace root /w
Home == <<"h">>          \* the home directory /h

\* Path(path).expanduser()
ExpandUser(p) == IF p # <<>> /\ Head(p) = "~" THEN <<"/">> \o Home \o Tail(p) ELSE p

\* the segments from the filesystem root: a relative path is joined to the
\* workspace root
Anchor(p) == IF p # <<>> /\ Head(p) = "/" THEN Tail(p) ELSE Workspace \o p

\* Path.resolve() where no segment is a symbolic link: "." is dropped and
\* ".." drops the segment before it; the root is its own parent
RECURSIVE Normalize(_, _)
Normalize(done, rest) ==
    IF rest = <<>> THEN done
    ELSE IF Head(rest) = "." THEN Normalize(done, Tail(rest))
    ELSE IF Head(rest) = ".." THEN
        Normalize(IF done = <<>> THEN <<>> ELSE SubSeq(done, 1, Len(done) - 1), Tail(rest))
    ELSE Normalize(Append(done, Head(rest)), Tail(rest))

\* _resolve_path
ResolvePath(p) == Normalize(<<>>, Anchor(ExpandUser(p)))

\* the node at a resolved path
NodeAt(q) ==
    CASE q = <<"w", "f">> -> "f"
      [] q = <<"w", "d">> -> "d"
      [] q = <<"w", "n", "f">> -> "n/f"
      [] q = <<"o">> -> "/o"
      [] q = <<"h", "o">> -> "/h/o"

\* the resolved path of a node
PathOf(node) ==
    CASE node = "/o" -> <<"o">>
      [] node = "/h/o" -> <<"h", "o">>
      [] node = "n/f" -> <<"w", "n", "f">>
      [] OTHER -> <<"w", node>>

\* the path arguments of the model: relative, with "." and "..", absolute,
\* and tilde-prefixed
PathArgs ==
    {<<"f">>, <<"d">>, <<"n", "f">>, <<".", "f">>, <<"d", "..", "f">>, <<"/", "w", "f">>, <<"..", "w", "f">>,
     <<"..", "o">>, <<"/", "o">>, <<"~", "o">>, <<"n", "..", "..", "o">>, <<"/", "..", "o">>}

PathTexts == {<<"a">>, <<"a", "a">>}

InitPath ==
    /\ fs = InitFs
    /\ store = NoStore
    /\ outbox = NoOutbox
    /\ skills = NoSkills
    /\ drivers = NoDrivers
    /\ last = NoCall
    /\ ret = Returned("none", 0)

NextPath ==
    \/ \E p \in PathArgs : read_file(NodeAt(ResolvePath(p)))
    \/ \E p \in PathArgs : \E c \in PathTexts : write_file(NodeAt(ResolvePath(p)), c)
    \/ \E p \in PathArgs : \E o \in PathTexts, n \in PathTexts : edit_file(NodeAt(ResolvePath(p)), o, n)

SpecPath == InitPath /\ [][NextPath]_vars

----------------------------------------------------------------------------
(* Claims about the file tools, checked under SpecFile *)

\* the text edit_file read from its target, when the target was a file
EditedText == ReadText(last.pre.content)

EditOnFile == last.op = "edit_file" /\ last.pre.kind = "file"

C7_WriteThenReadExact ==
    (last.op = "write_file" /\ ret.t = "Successfully wrote") =>
        ReadFileResult(fs, last.path) = Returned("text", last.a)

\* the leftmost position at which sub starts in s
FirstAt(s, sub) ==
    CHOOSE i \in 0..(Len(s) - Len(sub)) :
        /\ SubSeq(s, i + 1, i + Len(sub)) = sub
        /\ \A j \in 0..(i - 1) : SubSeq(s, j + 1, j + Len(sub)) # sub

\* s with the occurrence of old at its leftmost position replaced by new
OneReplaced(s, old, new) ==
    SubSeq(s, 1, FirstAt(s, old)) \o new \o SubSeq(s, FirstAt(s, old) + Len(old) + 1, Len(s))

HasCR(text) == \E i \in 1..Len(text) : text[i] = CR

----------------------------------------------------------------------------
(* Shell commands *)

TAB == "TAB"

LowerLetters == {"a", "b", "c", "d", "e", "f", "g", "h", "i", "j", "k", "l", "m", "n", "o", "p", "q", "r", "s", "t", "u", "v", "w", "x", "y", "z"}
UpperLetters == {"A", "B", "C", "D", "E", "F", "G", "H", "I", "J", "K", "L", "M", "N", "O", "P", "Q", "R", "S", "T", "U", "V", "W", "X", "Y", "Z"}
Digits == {"0", "1", "2", "3", "4", "5", "6", "7", "8", "9"}

\* str.lower on one character
LowerChar(c) ==
    CASE c = "A" -> "a"
      [] c = "B" -> "b"
      [] c = "C" -> "c"
      [] c = "D" -> "d"
      [] c = "E" -> "e"
      [] c = "F" -> "f"
      [] c = "G" -> "g"
      [] c = "H" -> "h"
      [] c = "I" -> "i"
      [] c = "J" -> "j"
      [] c = "K" -> "k"
      [] c = "L" -> "l"
      [] c = "M" -> "m"
      [] c = "N" -> "n"
      [] c = "O" -> "o"
      [] c = "P" -> "p"
      [] c = "Q" -> "q"
      [] c = "R" -> "r"
      [] c = "S" -> "s"
      [] c = "T" -> "t"
      [] c = "U" -> "u"
      [] c = "V" -> "v"
      [] c = "W" -> "w"
      [] c = "X" -> "x"
      [] c = "Y" -> "y"
      [] c = "Z" -> "z"
      [] OTHER -> c

\* str.lower
LowerText(s) == [i \in 1..Len(s) |-> LowerChar(s[i])]

\* the characters the regular expressions class as \s and as \w
IsSpace(c) == c \in {" ", TAB, LF, CR}
IsWord(c) == c \in LowerLetters \cup UpperLetters \cup Digits \cup {"_"}

\* str.strip: leading and trailing whitespace removed
RECURSIVE LStrip(_)
LStrip(s) == IF s # <<>> /\ IsSpace(Head(s)) THEN LStrip(Tail(s)) ELSE s
RECURSIVE RStrip(_)
RStrip(s) == IF s # <<>> /\ IsSpace(s[Len(s)]) THEN RStrip(SubSeq(s, 1, Len(s) - 1)) ELSE s
Strip(s) == RStrip(LStrip(s))

(* Regular expressions.  A position is an offset 0..Len(t) into the text; *)
(* each operator maps the positions at which a piece may start to the     *)
(* positions at which it may end, so a pattern matches somewhere in t     *)
(* (re.search) when the positions left after its last piece are not empty *)

\* \b
AtBoundary(t, i) == (i > 0 /\ IsWord(t[i])) # (i < Len(t) /\ IsWord(t[i + 1]))
Boundary(t, S) == {i \in S : AtBoundary(t, i)}

\* a literal
Lit(t, S, w) == {i + Len(w) : i \in {j \in S : j + Len(w) <= Len(t) /\ SubSeq(t, j + 1, j + Len(w)) = w}}

\* an alternation of literals
OneOf(t, S, ws) == UNION {Lit(t, S, w) : w \in ws}

\* between lo and hi characters of the class C
Class(t, S, C, lo, hi) ==
    {j \in 0..Len(t) : \E i \in S : (j - i) \in lo..hi /\ \A k \in (i + 1)..j : t[k] \in C}

\* \s+ (min = 1) and \s* (min = 0)
Spaces(t, S, min) ==
    {j \in 0..Len(t) : \E i \in S : j >= i + min /\ \A k \in (i + 1)..j : IsSpace(t[k])}

\* .* : any characters but the line feed
AnyRun(t, S) == {j \in 0..Len(t) : \E i \in S : j >= i /\ \A k \in (i + 1)..j : t[k] # LF}

All(t) == 0..Len(t)

\* _DENY_PATTERNS, each searched in the text t
DenyRm(t) == Boundary(t, Class(t, Lit(t, Spaces(t, Lit(t, Boundary(t, All(t)), <<"r", "m">>), 1), <<"-">>), {"r", "f"}, 1, 2)) # {}
DenyDel(t) == Boundary(t, Class(t, Lit(t, Spaces(t, Lit(t, Boundary(t, All(t)), <<"d", "e", "l">>), 1), <<"/">>), {"f", "q"}, 1, 1)) # {}
DenyRmdir(t) == Boundary(t, Lit(t, Spaces(t, Lit(t, Boundary(t, All(t)), <<"r", "m", "d", "i", "r">>), 1), <<"/", "s">>)) # {}
DenyFormat(t) == Boundary(t, OneOf(t, Boundary(t, All(t)), {<<"f", "o", "r", "m", "a", "t">>, <<"m", "k", "f", "s">>, <<"d", "i", "s", "k", "p", "a", "r", "t">>})) # {}
DenyDd(t) == Lit(t, Spaces(t, Lit(t, Boundary(t, All(t)), <<"d", "d">>), 1), <<"i", "f", "=">>) # {}
DenyDevice(t) == Lit(t, Spaces(t, Lit(t, All(t), <<">">>), 0), <<"/", "d", "e", "v", "/", "s", "d">>) # {}
DenyShutdown(t) == Boundary(t, OneOf(t, Boundary(t, All(t)), {<<"s", "h", "u", "t", "d", "o", "w", "n">>, <<"r", "e", "b", "o", "o", "t">>, <<"p", "o", "w", "e", "r", "o", "f", "f">>})) # {}
DenyForkBomb(t) ==
    Lit(t, Spaces(t, Lit(t, AnyRun(t, Lit(t, Spaces(t, Lit(t, All(t), <<":", "(", ")">>), 0), <<"{">>)), <<"}", ";">>), 0), <<":">>) # {}

\* some deny pattern is found in t
DenyMatch(t) ==
    \/ DenyRm(t) \/ DenyDel(t) \/ DenyRmdir(t) \/ DenyFormat(t)
    \/ DenyDd(t) \/ DenyDevice(t) \/ DenyShutdown(t) \/ DenyForkBomb(t)

\* the command lines exec_command is called with
BaseCommands == {
    <<"r", "m", " ", "-", "r", "f", " ", "/">>,
    <<"R", "M", " ", "-", "R", " ", "x">>,
    <<"r", "m", " ", " ", "-", "f", " ", "x">>,
    <<"r", "m", " ", "-", "r", "f", "v", " ", "x">>,
    <<"r", "m", " ", "x">>,
    <<"f", "a", "r", "m", " ", "-", "r">>,
    <<"r", "m", " ", "-", "r", "-", "f">>,
    <<"d", "e", "l", " ", "/", "q", " ", "x">>,
    <<"d", "e", "l", " ", "/", "s", " ", "x">>,
    <<"r", "m", "d", "i", "r", " ", "/", "s", " ", "x">>,
    <<"R", "m", "d", "i", "r", TAB, "/", "S">>,
    <<"m", "k", "f", "s">>,
    <<"f", "o", "r", "m", "a", "t", " ", "c", ":">>,
    <<"i", "n", "f", "o", "r", "m", "a", "t", "i", "o", "n">>,
    <<"d", "i", "s", "k", "p", "a", "r", "t">>,
    <<"d", "d", " ", "i", "f", "=", "x">>,
    <<"d", "d", " ", " ", "o", "f", "=", "x">>,
    <<">", " ", "/", "d", "e", "v", "/", "s", "d", "a">>,
    <<"e", "c", "h", "o", " ", "x", " ", ">", "/", "d", "e", "v", "/", "s", "d", "b">>,
    <<">", " ", "/", "d", "e", "v", "/", "n", "u", "l", "l">>,
    <<"s", "h", "u", "t", "d", "o", "w", "n">>,
    <<"R", "e", "b", "o", "o", "t">>,
    <<"p", "o", "w", "e", "r", "o", "f", "f">>,
    <<"r", "e", "b", "o", "o", "t", "e", "d">>,
    <<":", "(", ")", "{", " ", ":", "|", ":", "&", " ", "}", ";", ":">>,
    <<":", "(", ")", " ", "{", " ", "x", " ", "}", ";", LF, ":">>,
    <<":", "(", ")", "{", LF, "}", ";", ":">>,
    <<"e", "c", "h", "o", " ", "h", "i">>,
    <<>>}

\* each command as it is, and with whitespace around it
Commands == BaseCommands \cup {<<" ">> \o c \o <<LF>> : c \in BaseCommands}

----------------------------------------------------------------------------
(* exec_command *)

max_len == 12000

\* str(n) for a natural number
DigitChar(d) ==
    CASE d = 0 -> "0" [] d = 1 -> "1" [] d = 2 -> "2" [] d = 3 -> "3" [] d = 4 -> "4"
      [] d = 5 -> "5" [] d = 6 -> "6" [] d = 7 -> "7" [] d = 8 -> "8" [] d = 9 -> "9"
RECURSIVE Str(_)
Str(n) ==
    IF n < 0 THEN <<"-">> \o Str(0 - n)
    ELSE IF n < 10 THEN <<DigitChar(n)>>
    ELSE Str(n \div 10) \o <<DigitChar(n % 10)>>

\* "\n".join(parts)
RECURSIVE JoinLines(_)
JoinLines(parts) ==
    IF parts = <<>> THEN <<>>
    ELSE IF Len(parts) = 1 THEN parts[1]
    ELSE parts[1] \o <<LF>> \o JoinLines(Tail(parts))

\* a result that is cut one character early
ExecResultCutsEarly(stdout, stderr, returncode) ==
    LET parts == (IF stdout # <<>> THEN <<stdout>> ELSE <<>>)
                 \o (IF stderr # <<>> THEN <<<<"S", "T", "D", "E", "R", "R", ":", LF>> \o stderr>> ELSE <<>>)
                 \o (IF returncode # 0 THEN <<<<"E", "x", "i", "t", " ", "c", "o", "d", "e", ":", " ">> \o Str(returncode)>> ELSE <<>>)
        joined == Strip(JoinLines(parts))
        result == IF joined = <<>> THEN <<"(", "n", "o", " ", "o", "u", "t", "p", "u", "t", ")">> ELSE joined
    IN  IF Len(result) >= max_len
        THEN Take(result, max_len - 1) \o <<LF, ".", ".", ".", " ", "(", "t", "r", "u", "n", "c", "a", "t", "e", "d", ",", " ">> \o Str(Len(result) - max_len) \o <<" ", "m", "o", "r", "e", " ", "c", "h", "a", "r", "s", ")">>
        ELSE result

\* the text exec_command returns for a command that ran to completion
ExecResult(stdout, stderr, returncode) ==
    LET parts == (IF stdout # <<>> THEN <<stdout>> ELSE <<>>)
                 \o (IF stderr # <<>> THEN <<<<"S", "T", "D", "E", "R", "R", ":", LF>> \o stderr>> ELSE <<>>)
                 \o (IF returncode # 0 THEN <<<<"E", "x", "i", "t", " ", "c", "o", "d", "e", ":", " ">> \o Str(returncode)>> ELSE <<>>)
        joined == Strip(JoinLines(parts))
        result == IF joined = <<>> THEN <<"(", "n", "o", " ", "o", "u", "t", "p", "u", "t", ")">> ELSE joined
    IN  IF Len(result) > max_len
        THEN Take(result, max_len) \o <<LF, ".", ".", ".", " ", "(", "t", "r", "u", "n", "c", "a", "t", "e", "d", ",", " ">> \o Str(Len(result) - max_len) \o <<" ", "m", "o", "r", "e", " ", "c", "h", "a", "r", "s", ")">>
        ELSE result

\* what subprocess.run may give: a timeout, or a completed process
Runs ==
    {[kind |-> "timeout", stdout |-> <<>>, stderr |-> <<>>, returncode |-> 0]}
    \cup {[kind |-> "completed", stdout |-> o, stderr |-> e, returncode |-> c] :
            o \in {<<>>, <<"a", LF>>}, e \in {<<>>, <<"e">>}, c \in {0, 1}}

\* what a command that runs may do to the workspace: nothing, or create or
\* delete the file "f"
Effects(f) == {f, [f EXCEPT !["f"] = IF f["f"].kind = "absent" THEN File(<<"a">>) ELSE Absent]}

\* the working directories exec_command is called with: none, a directory,
\* a path that may not be a directory, the home of a user that does not exist
WorkingDirs == {"", "d", "f", "~nouser"}

\* an output as long as the result may get without being truncated
Big == [i \in 1..max_len |-> "x"]

\* completed processes with long output
BigRuns ==
    {[kind |-> "completed", stdout |-> o, stderr |-> <<>>, returncode |-> 0] :
        o \in {Big, Big \o <<"x">>, Big \o <<LF>>, <<LF>> \o Big \o <<"x", "x", LF>>}}
    \cup {[kind |-> "completed", stdout |-> Big, stderr |-> <<"e">>, returncode |-> 1]}

\* the one command of the model whose output may be long
Verbose == <<"e", "c", "h", "o", " ", "h", "i">>
RunsOf(command) == IF command = Verbose THEN Runs \cup BigRuns ELSE Runs

\* the result text of every run of the model
ResultOf == [run \in (Runs \cup BigRuns) \ {r \in Runs : r.kind = "timeout"} |->
                ExecResult(run.stdout, run.stderr, run.returncode)]

\* no process was started
NoRun == [kind |-> "none", stdout |-> <<>>, stderr |-> <<>>, returncode |-> 0]

ExecCall(command, working_dir, spawned, prefs, run) ==
    [op |-> "exec", command |-> command, working_dir |-> working_dir, spawned |-> spawned, prefs |-> prefs,
     run |-> run]

\* a deny check that searches the command as typed, without lower-casing it
BlockedCaseSensitive(command) == DenyMatch(Strip(command))

\* tools.py:129-133: the deny patterns are searched in the stripped,
\* lower-cased command
Blocked(command) == DenyMatch(LowerText(Strip(command)))

\* the commands of the model that the deny check stops
BlockedCommands == {c \in Commands : Blocked(c)}

exec_command(command, working_dir, timeout) ==
    /\ UNCHANGED <<store, outbox, skills, drivers>>
    /\ IF command \in BlockedCommands THEN
               /\ ret' = Returned("Error: Command blocked by safety guard", 0)
               /\ last' = ExecCall(command, working_dir, FALSE, fs, NoRun)
               /\ UNCHANGED fs
           ELSE IF working_dir = "~nouser" THEN
               \* Path.expanduser raises RuntimeError outside the try block
               /\ ret' = Raised("RuntimeError")
               /\ last' = ExecCall(command, working_dir, FALSE, fs, NoRun)
               /\ UNCHANGED fs
           ELSE IF working_dir # "" /\ ~IsDir(fs, working_dir) THEN
               /\ ret' = Returned("Error executing command",
                                  IF IsFile(fs, working_dir) THEN "NotADirectoryError" ELSE "FileNotFoundError")
               /\ last' = ExecCall(command, working_dir, FALSE, fs, NoRun)
               /\ UNCHANGED fs
           ELSE
               \E run \in RunsOf(command) :
                   /\ fs' \in Effects(fs)
                   /\ last' = ExecCall(command, working_dir, TRUE, fs, run)
                   /\ ret' = IF run.kind = "timeout" THEN Returned("Error: Command timed out", timeout)
                             ELSE Returned("text", ResultOf[run])

InitExec ==
    /\ fs = InitFs
    /\ store = NoStore
    /\ outbox = NoOutbox
    /\ skills = NoSkills
    /\ drivers = NoDrivers
    /\ last = NoCall
    /\ ret = Returned("none", 0)

NextExec == \E c \in Commands, w \in WorkingDirs : exec_command(c, w, 60)

SpecExec == InitExec /\ [][NextExec]_vars

----------------------------------------------------------------------------
(* Claims about exec_command, checked under SpecExec *)

\* C2: a command whose lower-cased text matches a deny pattern gets the
\* safety-guard error, starts no subprocess and leaves the workspace as it
\* was, whatever its working directory.
C2_DeniedNeverRuns ==
    (last.op = "exec" /\ DenyMatch(LowerText(last.command))) =>
        /\ ret.t = "Error: Command blocked by safety guard"
        /\ ~last.spawned
        /\ fs = last.prefs

\* a command typed with capitals and surrounding whitespace was blocked
\* after another command had run and changed the workspace
C2_Witness ==
    /\ last.op = "exec"
    /\ DenyMatch(LowerText(last.command))
    /\ ~DenyMatch(last.command)
    /\ Strip(last.command) # last.command
    /\ ret.t = "Error: Command blocked by safety guard"
    /\ fs # InitFs

----------------------------------------------------------------------------
(* The cron store *)

\* optional arguments: None, or a value
NoneInt == [some |-> FALSE, v |-> 0]
NoneText == [some |-> FALSE, v |-> <<>>]
Some(v) == [some |-> TRUE, v |-> v]

\* Python truthiness of an optional int and of an optional str
TruthyInt(o) == o.some /\ o.v # 0
TruthyText(o) == o.some /\ o.v # <<>>

Job(id, name, msg, schedule, created_at) ==
    [id |-> id, name |-> name, message |-> msg, schedule |-> schedule, created_at |-> created_at]

\* can UTF-8 encode json.dumps(jobs, ensure_ascii=False)
JobsEncodable(jobs) ==
    \A i \in 1..Len(jobs) : Encodable(jobs[i].name) /\ Encodable(jobs[i].message) /\ Encodable(jobs[i].schedule)

\* _load_cron_jobs
LoadCronJobs(st) == IF st.kind = "absent" THEN <<>> ELSE IF st.json THEN st.value ELSE <<>>

\* _save_cron_jobs: the nodes, the store file and the exception raised ("" for none)
SaveCronJobs(f, st, jobs) ==
    LET made == Mkdir(f, ".picobot")
    IN  IF made.exc # "" THEN [exc |-> made.exc, fs |-> f, store |-> st]
        ELSE IF st.kind = "dir" THEN [exc |-> "IsADirectoryError", fs |-> made.fs, store |-> st]
        ELSE IF ~JobsEncodable(jobs) THEN [exc |-> "UnicodeEncodeError", fs |-> made.fs, store |-> Unparsable]
        ELSE [exc |-> "", fs |-> made.fs, store |-> JsonFile(jobs)]

\* the lines of a listing, one per job
JobLines(jobs) == [i \in 1..Len(jobs) |-> [name |-> jobs[i].name, id |-> jobs[i].id, schedule |-> jobs[i].schedule]]

\* the jobs whose id differs from job_id, in order
RECURSIVE WithoutId(_, _)
WithoutId(jobs, job_id) ==
    IF jobs = <<>> THEN <<>>
    ELSE IF Head(jobs).id # job_id THEN <<Head(jobs)>> \o WithoutId(Tail(jobs), job_id)
    ELSE WithoutId(Tail(jobs), job_id)

Outcome(f, st, r) == [fs |-> f, store |-> st, ret |-> r]

\* cron, action "list"
CronList(f, st) ==
    LET jobs == LoadCronJobs(st)
    IN  IF StoreShape(st) = "null" THEN Outcome(f, st, Returned("No scheduled jobs.", 0))
        \* the keys of the object are texts, and j['name'] of a text raises
        ELSE IF StoreShape(st) = "object" THEN Outcome(f, st, Raised("TypeError"))
        ELSE IF jobs = <<>> THEN Outcome(f, st, Returned("No scheduled jobs.", 0))
        ELSE Outcome(f, st, Returned("Scheduled jobs:", JobLines(jobs)))

\* a remove that saves the filtered list before it looks whether a job went
CronRemoveSavesFirst(f, st, job_id) ==
    LET jobs == LoadCronJobs(st)
        kept == WithoutId(jobs, job_id)
        saved == SaveCronJobs(f, st, kept)
    IN  IF job_id = "" THEN Outcome(f, st, Returned("Error: job_id is required for remove", 0))
        ELSE IF saved.exc # "" THEN Outcome(saved.fs, saved.store, Raised(saved.exc))
        ELSE IF Len(kept) = Len(jobs) THEN Outcome(saved.fs, saved.store, Returned("Job not found", job_id))
        ELSE Outcome(saved.fs, saved.store, Returned("Removed job", job_id))

\* cron, action "remove"; job_id "" stands for None and for the empty text
CronRemove(f, st, job_id) ==
    LET jobs == LoadCronJobs(st)
        kept == WithoutId(jobs, job_id)
        saved == SaveCronJobs(f, st, kept)
    IN  IF job_id = "" THEN Outcome(f, st, Returned("Error: job_id is required for remove", 0))
        \* len(None), and j["id"] of a key of the object, raise
        ELSE IF StoreShape(st) # "array" THEN Outcome(f, st, Raised("TypeError"))
        ELSE IF Len(kept) = Len(jobs) THEN Outcome(f, st, Returned("Job not found", job_id))
        ELSE IF saved.exc # "" THEN Outcome(saved.fs, saved.store, Raised(saved.exc))
        ELSE Outcome(saved.fs, saved.store, Returned("Removed job", job_id))

NameLen == 30

\* the schedule text of an add, <<>> when no specifier is truthy
Schedule(every_seconds, cron_expr, at) ==
    IF TruthyInt(every_seconds) THEN <<"e", "v", "e", "r", "y", ":">> \o Str(every_seconds.v) \o <<"s">>
    ELSE IF TruthyText(cron_expr) THEN <<"c", "r", "o", "n", ":">> \o cron_expr.v
    ELSE IF TruthyText(at) THEN <<"a", "t", ":">> \o at.v
    ELSE <<>>

\* an add that puts the new job before the jobs of the store
CronAddPutsFirst(f, st, msg, every_seconds, cron_expr, at, id, now) ==
    LET jobs == LoadCronJobs(st)
        schedule == Schedule(every_seconds, cron_expr, at)
        new_job == Job(id, Take(msg, NameLen), msg, schedule, now)
        saved == SaveCronJobs(f, st, <<new_job>> \o jobs)
    IN  IF msg = <<>> THEN Outcome(f, st, Returned("Error: message is required for add", 0))
        ELSE IF schedule = <<>> THEN
            Outcome(f, st, Returned("Error: either every_seconds, cron_expr, or at is required", 0))
        ELSE IF StoreShape(st) # "array" THEN Outcome(f, st, Raised("AttributeError"))
        ELSE IF saved.exc # "" THEN Outcome(saved.fs, saved.store, Raised(saved.exc))
        ELSE Outcome(saved.fs, saved.store, Returned("Created job", [name |-> new_job.name, id |-> id]))

\* cron, action "add"; id is uuid4().hex[:8] and now is datetime.now()
CronAdd(f, st, msg, every_seconds, cron_expr, at, id, now) ==
    LET jobs == LoadCronJobs(st)
        schedule == Schedule(every_seconds, cron_expr, at)
        new_job == Job(id, Take(msg, NameLen), msg, schedule, now)
        saved == SaveCronJobs(f, st, Append(jobs, new_job))
    IN  IF msg = <<>> THEN Outcome(f, st, Returned("Error: message is required for add", 0))
        ELSE IF schedule = <<>> THEN
            Outcome(f, st, Returned("Error: either every_seconds, cron_expr, or at is required", 0))
        \* None and a dict have no append
        ELSE IF StoreShape(st) # "array" THEN Outcome(f, st, Raised("AttributeError"))
        ELSE IF saved.exc # "" THEN Outcome(saved.fs, saved.store, Raised(saved.exc))
        ELSE Outcome(saved.fs, saved.store, Returned("Created job", [name |-> new_job.name, id |-> id]))

\* cron: the dispatch on action
CronOutcome(f, st, action, msg, every_seconds, cron_expr, at, job_id, id, now) ==
    IF action = "list" THEN CronList(f, st)
    ELSE IF action = "remove" THEN CronRemove(f, st, job_id)
    ELSE IF action = "add" THEN CronAdd(f, st, msg, every_seconds, cron_expr, at, id, now)
    ELSE Outcome(f, st, Returned("Unknown action", action))

CronCall(action, msg, sched, job_id, pre, prefs) ==
    [op |-> "cron", action |-> action, message |-> msg, sched |-> sched, job_id |-> job_id,
     pre |-> pre, prefs |-> prefs]

MaxJobs == 2         \* most jobs kept in the cron store

\* the ids uuid4().hex[:8] may give, and the times datetime.now() may give
Ids == {"1a2b3c4d", "5e6f7a8b"}
Times == {<<"2", "0", "2", "6", "-", "0", "1", "-", "0", "1", "T", "0", "0", ":", "0", "0", ":", "0", "0">>, <<"2", "0", "2", "6", "-", "0", "1", "-", "0", "1", "T", "0", "0", ":", "0", "0", ":", "0", "1">>}

\* the time of every cron call of the model
CronTimes == {CHOOSE t \in Times : t[Len(t)] = "0"}

\* a message longer than a job name
LongMessage == [i \in 1..(NameLen + 1) |-> "m"]

\* the arguments cron add is called with: message, every_seconds,
\* cron_expr, at
AddArgs ==
    {<<<<"m">>, Some(30), NoneText, NoneText>>,
     <<LongMessage, Some(0), Some(<<"e">>), NoneText>>,
     <<<<"m">>, NoneInt, Some(<<>>), Some(<<"t">>)>>,
     <<<<"m">>, Some(30), Some(<<"e">>), Some(<<"t">>)>>,
     <<<<>>, Some(30), NoneText, NoneText>>,
     <<<<"m">>, NoneInt, NoneText, NoneText>>,
     <<<<"m">>, Some(0), NoneText, NoneText>>,
     <<<<"m">>, NoneInt, Some(<<>>), NoneText>>,
     <<<<"m", SUR>>, Some(30), NoneText, NoneText>>}
JobIds == Ids \cup {"", "ffffffff"}

cron(action, msg, every_seconds, cron_expr, at, job_id) ==
    \E id \in Ids, now \in CronTimes :
        LET out == CronOutcome(fs, store, action, msg, every_seconds, cron_expr, at, job_id, id, now)
        IN  /\ Len(LoadCronJobs(out.store)) <= MaxJobs
            /\ fs' = out.fs
            /\ store' = out.store
            /\ ret' = out.ret
            /\ last' = CronCall(action, msg, <<every_seconds, cron_expr, at>>, job_id, store, fs)
            /\ UNCHANGED <<outbox, skills, drivers>>

InitCron ==
    /\ fs = InitFs
    /\ store = NoStore
    /\ outbox = NoOutbox
    /\ skills = NoSkills
    /\ drivers = NoDrivers
    /\ last = NoCall
    /\ ret = Returned("none", 0)

NextCron ==
    \/ cron("list", <<>>, NoneInt, NoneText, NoneText, "")
    \/ \E j \in JobIds : cron("remove", <<>>, NoneInt, NoneText, NoneText, j)
    \/ \E a \in AddArgs : cron("add", a[1], a[2], a[3], a[4], "")
    \/ cron("purge", <<>>, NoneInt, NoneText, NoneText, "")
    \/ write_file(".picobot", <<"a">>)

SpecCron == InitCron /\ [][NextCron]_vars

\* cron on a workspace whose store file was left in any condition
StoreContents == {NoStore, Unparsable, StoreDir, JsonOther("null"), JsonOther("object"), JsonFile(<<>>)}

InitStore ==
    /\ fs = [InitFs EXCEPT ![".picobot"] = Dir]
    /\ store \in StoreContents \ {NoStore}
    /\ outbox = NoOutbox
    /\ skills = NoSkills
    /\ drivers = NoDrivers
    /\ last = NoCall
    /\ ret = Returned("none", 0)

NextStore ==
    \/ cron("list", <<>>, NoneInt, NoneText, NoneText, "")
    \/ \E j \in JobIds : cron("remove", <<>>, NoneInt, NoneText, NoneText, j)
    \/ \E a \in AddArgs : cron("add", a[1], a[2], a[3], a[4], "")

SpecStore == InitStore /\ [][NextStore]_vars

----------------------------------------------------------------------------
(* message and the outbox log *)

MaxMessages == 2     \* most lines kept in the outbox log

\* an escape that leaves the line feed as it is
JsonEscapeCharKeepsLF(c) ==
    CASE c = "\"" -> <<"\\", "\"">>
      [] c = "\\" -> <<"\\", "\\">>
      [] c = CR -> <<"\\", "r">>
      [] c = TAB -> <<"\\", "t">>
      [] OTHER -> <<c>>

\* json.dumps of a str with ensure_ascii=False: quoted, with the quote, the
\* backslash and the control characters escaped
JsonEscapeChar(c) ==
    CASE c = "\"" -> <<"\\", "\"">>
      [] c = "\\" -> <<"\\", "\\">>
      [] c = LF -> <<"\\", "n">>
      [] c = CR -> <<"\\", "r">>
      [] c = TAB -> <<"\\", "t">>
      [] OTHER -> <<c>>
RECURSIVE JsonEscape(_)
JsonEscape(s) == IF s = <<>> THEN <<>> ELSE JsonEscapeChar(Head(s)) \o JsonEscape(Tail(s))
JsonString(s) == <<"\"">> \o JsonEscape(s) \o <<"\"">>

\* json.dumps of the record message writes
OutboxLine(ts, channel, chat_id, content) ==
    <<"{", "\"", "t", "i", "m", "e", "s", "t", "a", "m", "p", "\"", ":", " ">> \o JsonString(ts) \o <<",", " ", "\"", "c", "h", "a", "n", "n", "e", "l", "\"", ":", " ">> \o JsonString(channel)
    \o <<",", " ", "\"", "c", "h", "a", "t", "_", "i", "d", "\"", ":", " ">> \o JsonString(chat_id) \o <<",", " ", "\"", "c", "o", "n", "t", "e", "n", "t", "\"", ":", " ">> \o JsonString(content) \o <<"}">>

MessageCall(content, channel, chat_id, pre) ==
    [op |-> "message", content |-> content, channel |-> channel, chat_id |-> chat_id, pre |-> pre]

\* the number of line feeds of a text
LineCount(text) == Cardinality({i \in 1..Len(text) : text[i] = LF})

message(content, channel, chat_id) ==
    \E now \in Times :
        LET made == Mkdir(fs, "messages")
            line == OutboxLine(now, channel, chat_id, content)
        IN  /\ last' = MessageCall(content, channel, chat_id, outbox)
            /\ UNCHANGED <<store, skills, drivers>>
            /\ IF made.exc # "" THEN
                   \* mkdir raises and nothing catches it
                   /\ ret' = Raised(made.exc)
                   /\ UNCHANGED <<fs, outbox>>
               ELSE IF ~Encodable(line) THEN
                   \* open("a") has created the file when write raises
                   /\ ret' = Raised("UnicodeEncodeError")
                   /\ fs' = made.fs
                   /\ outbox' = OutboxFile(outbox.text)
               ELSE
                   /\ LineCount(outbox.text) < MaxMessages
                   /\ ret' = Returned("Message recorded", 0)
                   /\ fs' = made.fs
                   /\ outbox' = OutboxFile(outbox.text \o WriteText(line \o <<LF>>))

\* the arguments message is called with
MessageContents == {<<"h", "i">>, <<"a", LF, "\"">>, <<SUR>>}
Channels == {<<"l", "o", "c", "a", "l">>}
ChatIds == {<<"d", "e", "f", "a", "u", "l", "t">>, <<"u", "1">>}

InitMsg ==
    /\ fs = InitFs
    /\ store = NoStore
    /\ outbox = NoOutbox
    /\ skills = NoSkills
    /\ drivers = NoDrivers
    /\ last = NoCall
    /\ ret = Returned("none", 0)

NextMsg ==
    \/ \E c \in MessageContents, ch \in Channels, id \in ChatIds : message(c, ch, id)
    \/ write_file("messages", <<"a">>)

SpecMsg == InitMsg /\ [][NextMsg]_vars

----------------------------------------------------------------------------
(* cron called by several driver processes on one workspace *)

\* the length of json.dumps(jobs, ensure_ascii=False, indent=2)
ItemLen(j) ==
    105 + Len(JsonEscape(j.name)) + Len(JsonEscape(j.message)) + Len(JsonEscape(j.schedule))
        + Len(j.created_at)
RECURSIVE ItemsLen(_)
ItemsLen(jobs) == IF jobs = <<>> THEN 0 ELSE ItemLen(Head(jobs)) + ItemsLen(Tail(jobs))
JsonLen(jobs) == IF jobs = <<>> THEN 2 ELSE 4 + ItemsLen(jobs) + 2 * (Len(jobs) - 1)

\* a store file that holds the text one process wrote followed by the end
\* of a longer text another process had written; json.loads rejects it
Mixed(n) == [kind |-> "file", json |-> FALSE, value |-> <<>>, len |-> n]

\* the length of the text in the store file
StoreLen(st) ==
    IF "len" \in DOMAIN st THEN st.len
    ELSE IF st.kind = "file" /\ st.json /\ StoreShape(st) = "array" THEN JsonLen(st.value)
    ELSE 0

\* cron up to its call of _save_cron_jobs: whether it gets there, with
\* which list, and what it returns (after the save, when it saves)
CronPlan(f, st, action, msg, every_seconds, cron_expr, at, job_id, id, now) ==
    LET jobs == LoadCronJobs(st)
        kept == WithoutId(jobs, job_id)
        schedule == Schedule(every_seconds, cron_expr, at)
        new_job == Job(id, Take(msg, NameLen), msg, schedule, now)
    IN  IF action = "remove" /\ job_id # "" /\ StoreShape(st) = "array" /\ Len(kept) # Len(jobs) THEN
            [saves |-> TRUE, jobs |-> kept, ret |-> Returned("Removed job", job_id)]
        ELSE IF action = "add" /\ msg # <<>> /\ schedule # <<>> /\ StoreShape(st) = "array" THEN
            [saves |-> TRUE, jobs |-> Append(jobs, new_job),
             ret |-> Returned("Created job", [name |-> new_job.name, id |-> id])]
        ELSE
            [saves |-> FALSE, jobs |-> jobs,
             ret |-> CronOutcome(f, st, action, msg, every_seconds, cron_expr, at, job_id, id, now).ret]

InProgress(d) == drivers[d].pc # "idle"

\* the call driver d made last
RaceCall(d, action, loaded, jobs, raced) ==
    [op |-> "cron", action |-> action, driver |-> d, loaded |-> loaded, jobs |-> jobs, raced |-> raced]
Ended(d) == RaceCall(d, drivers[d].action, drivers[d].loaded, drivers[d].jobs, drivers[d].raced)

\* driver d between two calls
Rest(d) == [Idle EXCEPT !.overlapped = drivers[d].overlapped]

\* the drivers after the call of d saved the store file and returned r:
\* the calls that loaded the file before and have not saved yet have been
\* raced by it
AfterSaveOf(d, r) ==
    [e \in Drivers |->
        IF e = d THEN Rest(d)
        ELSE IF InProgress(e) /\ r.t = "Created job" THEN [drivers[e] EXCEPT !.raced = @ \cup {r.v.id}]
        ELSE drivers[e]]

\* driver d calls cron: _load_cron_jobs and everything up to the save, or
\* up to the return of a call that does not save
cron_load(d, action, msg, every_seconds, cron_expr, at, job_id) ==
    /\ ~InProgress(d)
    /\ \E id \in Ids, now \in CronTimes :
        LET plan == CronPlan(fs, store, action, msg, every_seconds, cron_expr, at, job_id, id, now)
            together == \E e \in Drivers \ {d} : InProgress(e)
            met == [e \in Drivers |-> [drivers[e] EXCEPT !.overlapped = @ \/ together]]
        IN  /\ Len(plan.jobs) <= MaxJobs
            /\ IF plan.saves THEN
                   /\ drivers' = [met EXCEPT ![d].pc = "loaded", ![d].action = action,
                                             ![d].loaded = LoadCronJobs(store), ![d].jobs = plan.jobs,
                                             ![d].pending = plan.ret]
                   /\ UNCHANGED <<last, ret>>
               ELSE
                   /\ drivers' = met
                   /\ last' = RaceCall(d, action, LoadCronJobs(store), plan.jobs, {})
                   /\ ret' = plan.ret
            /\ UNCHANGED <<fs, store, outbox, skills>>

\* _save_cron_jobs of driver d, first part: mkdir, and write_text opens
\* the store file for writing, which empties it
cron_open(d) ==
    /\ drivers[d].pc = "loaded"
    /\ LET made == Mkdir(fs, ".picobot")
       IN  IF made.exc # "" THEN
               /\ drivers' = [drivers EXCEPT ![d] = Rest(d)]
               /\ last' = Ended(d)
               /\ ret' = Raised(made.exc)
               /\ UNCHANGED <<fs, store>>
           ELSE IF store.kind = "dir" THEN
               /\ drivers' = [drivers EXCEPT ![d] = Rest(d)]
               /\ last' = Ended(d)
               /\ ret' = Raised("IsADirectoryError")
               /\ fs' = made.fs
               /\ UNCHANGED store
           ELSE
               /\ drivers' = [drivers EXCEPT ![d].pc = "opened"]
               /\ fs' = made.fs
               /\ store' = Unparsable
               /\ UNCHANGED <<last, ret>>
    /\ UNCHANGED <<outbox, skills>>

\* _save_cron_jobs of driver d, second part: write_text writes its text at
\* the start of the file, over what another process wrote since the file
\* was opened, and the call returns
cron_write(d) ==
    /\ drivers[d].pc = "opened"
    /\ LET jobs == drivers[d].jobs
       IN  IF ~JobsEncodable(jobs) THEN
               /\ drivers' = [drivers EXCEPT ![d] = Rest(d)]
               /\ UNCHANGED store
               /\ ret' = Raised("UnicodeEncodeError")
           ELSE
               /\ drivers' = AfterSaveOf(d, drivers[d].pending)
               /\ store' = IF StoreLen(store) > JsonLen(jobs) THEN Mixed(StoreLen(store)) ELSE JsonFile(jobs)
               /\ ret' = drivers[d].pending
    /\ last' = Ended(d)
    /\ UNCHANGED <<fs, outbox, skills>>

\* the arguments the drivers call cron add with
RaceArgs ==
    {<<<<"m">>, Some(30), NoneText, NoneText>>,
     <<<<"m", SUR>>, Some(30), NoneText, NoneText>>}

InitRace ==
    /\ fs = InitFs
    /\ store = NoStore
    /\ outbox = NoOutbox
    /\ skills = NoSkills
    /\ drivers = NoDrivers
    /\ last = NoCall
    /\ ret = Returned("none", 0)

NextRace ==
    \E d \in Drivers :
        \/ \E j \in Ids : cron_load(d, "remove", <<>>, NoneInt, NoneText, NoneText, j)
        \/ \E a \in RaceArgs : cron_load(d, "add", a[1], a[2], a[3], a[4], "")
        \/ cron_open(d)
        \/ cron_write(d)

SpecRace == InitRace /\ [][NextRace]_vars

----------------------------------------------------------------------------
(* Claims about message and cron *)

\* C3: every tool call returns a string to its caller and never raises,
\* also when a filesystem operation inside the call fails.  Checked under
\* SpecMsg, where creating the outbox directory can fail.
C3_NeverRaises == last.op # "none" => ret.t # "raise"

Range(s) == {s[i] : i \in 1..Len(s)}

\* C4: in calls made one at a time from an empty store, a job whose add
\* returned 'Created job' is listed, with the first 30 characters of its
\* message as name, its id and its schedule, until a remove of its id
\* succeeds and never after; list says 'No scheduled jobs.' exactly when no
\* created job is left.  Stated call by call: an add that reports success
\* has put its job in the store, no call but a successful remove of its id
\* takes a job out, that remove takes it out, only add puts jobs in, and
\* list renders the jobs of the store.  Checked under SpecCron.
C4_CreatedJobsListedUntilRemoved ==
    last.op = "cron" =>
        LET before == LoadCronJobs(last.pre)
            after == LoadCronJobs(store)
        IN  /\ ret.t = "Created job" =>
                \E j \in Range(after) :
                    /\ j.id = ret.v.id
                    /\ j.name = Take(last.message, NameLen)
                    /\ j.name = ret.v.name
                    /\ j \notin Range(before) \/ Cardinality({i \in 1..Len(after) : after[i] = j}) > 1
            /\ \A j \in Range(before) : ~(ret.t = "Removed job" /\ ret.v = j.id) => j \in Range(after)
            /\ ret.t = "Removed job" => \A j \in Range(after) : j.id # ret.v
            /\ ret.t # "Created job" => Range(after) \subseteq Range(before)
            /\ last.action = "list" =>
                ret = IF before = <<>> THEN Returned("No scheduled jobs.", 0)
                      ELSE Returned("Scheduled jobs:", JobLines(before))

\* the cases of C5: list, remove of an id no job has, remove without
\* job_id, add with an empty message, add with no schedule specifier, an
\* unknown action
NonMutatingCase ==
    \/ last.action = "list"
    \/ last.action = "remove" /\ \A j \in Range(LoadCronJobs(last.pre)) : j.id # last.job_id
    \/ last.action = "add" /\ last.message = <<>>
    \/ last.action = "add" /\ \A i \in 1..3 : ~last.sched[i].some
    \/ last.action \notin {"list", "remove", "add"}

C5_WitnessNoStore ==
    /\ last.op = "cron"
    /\ last.action = "remove"
    /\ last.job_id # ""
    /\ store = NoStore
    /\ ~Exists(fs, ".picobot")

\* C6: the ids of the jobs in the store are pairwise distinct, so a
\* successful remove deletes exactly one job and keeps every other job.
\* Checked under SpecCron.
C6_IdsDistinct ==
    LET jobs == LoadCronJobs(store)
    IN  /\ \A i, j \in 1..Len(jobs) : i # j => jobs[i].id # jobs[j].id
        /\ (last.op = "cron" /\ ret.t = "Removed job") => Len(LoadCronJobs(last.pre)) = Len(jobs) + 1

----------------------------------------------------------------------------
(* The skill registry (skills.py) *)

\* the code point of a character, for the characters of skill names
CharCode(c) ==
    CASE c = " " -> 32 [] c = "&" -> 38 [] c = "<" -> 60 [] c = ">" -> 62
      [] c = "A" -> 65 [] c = "B" -> 66 [] c = "_" -> 95 [] c = "a" -> 97 [] c = "b" -> 98
      [] OTHER -> 122

\* s < t and s <= t in the order of Python's str
RECURSIVE StrLess(_, _)
StrLess(s, t) ==
    IF t = <<>> THEN FALSE
    ELSE IF s = <<>> THEN TRUE
    ELSE IF Head(s) # Head(t) THEN CharCode(Head(s)) < CharCode(Head(t))
    ELSE StrLess(Tail(s), Tail(t))
StrLeq(s, t) == s = t \/ StrLess(s, t)

\* s.split(sep) for a one-character separator
RECURSIVE Split(_, _)
Split(s, sep) ==
    IF \A i \in 1..Len(s) : s[i] # sep THEN <<s>>
    ELSE LET k == CHOOSE i \in 1..Len(s) : s[i] = sep /\ \A j \in 1..(i - 1) : s[j] # sep
         IN  <<SubSeq(s, 1, k - 1)>> \o Split(Drop(s, k), sep)

\* s.strip(chars)
RECURSIVE LStripChars(_, _)
LStripChars(s, C) == IF s # <<>> /\ Head(s) \in C THEN LStripChars(Tail(s), C) ELSE s
RECURSIVE RStripChars(_, _)
RStripChars(s, C) == IF s # <<>> /\ s[Len(s)] \in C THEN RStripChars(SubSeq(s, 1, Len(s) - 1), C) ELSE s
StripChars(s, C) == RStripChars(LStripChars(s, C), C)

\* SkillRegistry._extract_description on the decoded manifest: the value
\* of the first description line of the front matter, or None
ExtractDescription(content) ==
    LET closings == {e \in 4..(Len(content) - 4) : SubSeq(content, e + 1, e + 4) = <<LF, "-", "-", "-">>}
        e == CHOOSE x \in closings : \A y \in closings : x <= y
        lines == Split(SubSeq(content, 5, e), LF)
        hits == {i \in 1..Len(lines) : StartsWith(Strip(lines[i]), <<"d", "e", "s", "c", "r", "i", "p", "t", "i", "o", "n", ":">>)}
        line == lines[CHOOSE i \in hits : \A j \in hits : i <= j]
        colon == CHOOSE i \in 1..Len(line) : line[i] = ":" /\ \A j \in 1..(i - 1) : line[j] # ":"
    IN  IF ~StartsWith(content, <<"-", "-", "-", LF>>) \/ closings = {} \/ hits = {} THEN NoneText
        ELSE Some(StripChars(Strip(Drop(line, colon)), {"\"", "'"}))

\* the skill names of the model: two that differ in case only, and one
\* that ends with a space
SkillNames == {<<"a">>, <<"A">>, <<"b", " ">>}

\* the two roots and the absolute paths they resolve to
RootPath(source) == IF source = "workspace" THEN <<"/", "w", "/", "s", "k", "i", "l", "l", "s">> ELSE <<"/", "p", "/", "s", "k", "i", "l", "l", "s">>
SkillPath(source, name) == RootPath(source) \o <<"/">> \o name \o <<"/", "S", "K", "I", "L", "L", ".", "m", "d">>

\* the manifest files of the model, as stored
ManifestText(source, name) ==
    IF source = "workspace" THEN
        CASE name = <<"a">> -> <<"-", "-", "-", LF, "d", "e", "s", "c", "r", "i", "p", "t", "i", "o", "n", ":", " ", "\"", "W", " ", "<", "a", ">", "\"", LF, "-", "-", "-", LF, "w", CR, LF>>
          [] name = <<"A">> -> <<"w">>
          [] OTHER -> <<"-", "-", "-", LF, "d", "e", "s", "c", "r", "i", "p", "t", "i", "o", "n", ":", LF, "-", "-", "-", LF, "w", " ", "b">>
    ELSE
        CASE name = <<"a">> -> <<"-", "-", "-", LF, "n", "a", "m", "e", ":", " ", "a", LF, "d", "e", "s", "c", "r", "i", "p", "t", "i", "o", "n", ":", " ", "B", " ", "&", " ", "a", LF, "-", "-", "-", LF, "b">>
          [] name = <<"A">> -> <<"-", "-", "-", LF, "n", "a", "m", "e", ":", " ", "x", LF, "-", "-", "-", LF, "b">>
          [] OTHER -> <<"-", "-", "-", LF, " ", "d", "e", "s", "c", "r", "i", "p", "t", "i", "o", "n", ":", " ", "'", "b", "'", LF, "-", "-", "-", LF>>

SkillInfo(name, path, source, description) ==
    [name |-> name, path |-> path, source |-> source, description |-> description]

\* a skills root: whether it is a directory, what each child is ("absent",
\* "dir" without manifest, "skill" with manifest), and the order in which
\* the filesystem enumerates the children
ChildKinds == {"absent", "dir", "skill"}
Orders == {<<<<"a">>, <<"A">>, <<"b", " ">>>>, <<<<"b", " ">>, <<"A">>, <<"a">>>>}
Roots ==
    {[isdir |-> FALSE, child |-> [n \in SkillNames |-> "absent"], order |-> o] : o \in {<<<<"a">>, <<"A">>, <<"b", " ">>>>}}
    \cup {[isdir |-> TRUE, child |-> c, order |-> o] : c \in [SkillNames -> ChildKinds], o \in Orders}

\* SkillRegistry._scan: the skills of a root in the order of enumeration
RECURSIVE ScanFrom(_, _, _)
ScanFrom(root, source, order) ==
    IF order = <<>> THEN <<>>
    ELSE LET name == Head(order)
             found == ExtractDescription(ReadText(ManifestText(source, name)))
             description == IF found.some /\ found.v # <<>> THEN found.v ELSE name
         IN  (IF root.child[name] = "skill"
              THEN <<SkillInfo(name, SkillPath(source, name), source, description)>>
              ELSE <<>>)
             \o ScanFrom(root, source, Tail(order))
Scan(root, source) == IF ~root.isdir THEN <<>> ELSE ScanFrom(root, source, root.order)

\* sorted(items, key=lambda item: item.name.lower()): stable
RECURSIVE InsertByName(_, _)
InsertByName(sorted, x) ==
    IF sorted = <<>> THEN <<x>>
    ELSE IF StrLeq(LowerText(Head(sorted).name), LowerText(x.name))
        THEN <<Head(sorted)>> \o InsertByName(Tail(sorted), x)
        ELSE <<x>> \o sorted
RECURSIVE SortByName(_)
SortByName(items) ==
    IF items = <<>> THEN <<>>
    ELSE InsertByName(SortByName(SubSeq(items, 1, Len(items) - 1)), items[Len(items)])

Names(infos) == {infos[i].name : i \in 1..Len(infos)}

\* the builtin skills whose name the workspace does not have
RECURSIVE NotShadowed(_, _)
NotShadowed(infos, taken) ==
    IF infos = <<>> THEN <<>>
    ELSE (IF Head(infos).name \in taken THEN <<>> ELSE <<Head(infos)>>) \o NotShadowed(Tail(infos), taken)

\* SkillRegistry.list_skills from the two scans
MergeSkills(workspace, builtin) ==
    SortByName(workspace \o NotShadowed(builtin, Names(workspace)))

ListSkills(ws, bi) == MergeSkills(Scan(ws, "workspace"), Scan(bi, "builtin"))

\* str.replace(c, rep) for a one-character c
RECURSIVE ReplaceChar(_, _, _)
ReplaceChar(s, c, rep) ==
    IF s = <<>> THEN <<>>
    ELSE (IF Head(s) = c THEN rep ELSE <<Head(s)>>) \o ReplaceChar(Tail(s), c, rep)

\* an escape that replaces the ampersand last
XmlEscapeAmpLast(text) == ReplaceChar(ReplaceChar(ReplaceChar(text, "<", <<"&", "l", "t", ";">>), ">", <<"&", "g", "t", ";">>), "&", <<"&", "a", "m", "p", ";">>)

\* _xml_escape
XmlEscape(text) == ReplaceChar(ReplaceChar(ReplaceChar(text, "&", <<"&", "a", "m", "p", ";">>), "<", <<"&", "l", "t", ";">>), ">", <<"&", "g", "t", ";">>)

\* the lines build_summary renders for one skill
SkillBlock(info) ==
    <<<<" ", " ", "<", "s", "k", "i", "l", "l", ">">>,
      <<" ", " ", " ", " ", "<", "n", "a", "m", "e", ">">> \o XmlEscape(info.name) \o <<"<", "/", "n", "a", "m", "e", ">">>,
      <<" ", " ", " ", " ", "<", "d", "e", "s", "c", "r", "i", "p", "t", "i", "o", "n", ">">> \o XmlEscape(info.description) \o <<"<", "/", "d", "e", "s", "c", "r", "i", "p", "t", "i", "o", "n", ">">>,
      <<" ", " ", " ", " ", "<", "s", "o", "u", "r", "c", "e", ">">> \o (IF info.source = "workspace" THEN <<"w", "o", "r", "k", "s", "p", "a", "c", "e">> ELSE <<"b", "u", "i", "l", "t", "i", "n">>) \o <<"<", "/", "s", "o", "u", "r", "c", "e", ">">>,
      <<" ", " ", " ", " ", "<", "l", "o", "c", "a", "t", "i", "o", "n", ">">> \o XmlEscape(info.path) \o <<"<", "/", "l", "o", "c", "a", "t", "i", "o", "n", ">">>,
      <<" ", " ", "<", "/", "s", "k", "i", "l", "l", ">">>>>

RECURSIVE SkillBlocks(_)
SkillBlocks(infos) == IF infos = <<>> THEN <<>> ELSE SkillBlock(Head(infos)) \o SkillBlocks(Tail(infos))

\* SkillRegistry.build_summary
BuildSummary(ws, bi) == JoinLines(<<<<"<", "s", "k", "i", "l", "l", "s", ">">>>> \o SkillBlocks(ListSkills(ws, bi)) \o <<<<"<", "/", "s", "k", "i", "l", "l", "s", ">">>>>)

\* SkillRegistry.read_skill: the manifest text, or the ValueError raised
ReadSkillResult(ws, bi, name) ==
    LET key == Strip(name)
        infos == ListSkills(ws, bi)
        hits == {i \in 1..Len(infos) : infos[i].name = key}
        info == infos[CHOOSE i \in hits : \A j \in hits : i <= j]
    IN  IF key = <<>> THEN Raised("ValueError: Skill name cannot be empty.")
        ELSE IF hits = {} THEN Raised("ValueError: Skill not found.")
        ELSE Returned("text", ReadText(ManifestText(info.source, info.name)))

SkillCall(op, name) == [op |-> op, name |-> name]

list_skills ==
    /\ ret' = Returned("skills", ListSkills(skills.ws, skills.bi))
    /\ last' = SkillCall("list_skills", <<>>)
    /\ UNCHANGED <<fs, store, outbox, skills, drivers>>

read_skill(name) ==
    /\ ret' = ReadSkillResult(skills.ws, skills.bi, name)
    /\ last' = SkillCall("read_skill", name)
    /\ UNCHANGED <<fs, store, outbox, skills, drivers>>

build_summary ==
    /\ ret' = Returned("summary", BuildSummary(skills.ws, skills.bi))
    /\ last' = SkillCall("build_summary", <<>>)
    /\ UNCHANGED <<fs, store, outbox, skills, drivers>>

\* the names read_skill is called with
ReadArgs == SkillNames \cup {<<>>, <<" ">>, <<"b">>, <<" ", "a">>, <<"z">>}

InitSkills ==
    /\ fs = InitFs
    /\ store = NoStore
    /\ outbox = NoOutbox
    /\ skills \in [ws : Roots, bi : Roots]
    /\ drivers = NoDrivers
    /\ last = NoCall
    /\ ret = Returned("none", 0)

NextSkills ==
    \/ list_skills
    \/ \E n \in ReadArgs : read_skill(n)
    \/ build_summary

SpecSkills == InitSkills /\ [][NextSkills]_vars

\* skill directories whose names, descriptions and locations hold the
\* characters & < > and the text of an entity
EscapeNames == {<<"a">>, <<"<", "&", ">">>, <<"&", "l", "t", ";">>}
EscapeRoots ==
    {[isdir |-> TRUE, child |-> c, order |-> <<<<"a">>, <<"<", "&", ">">>, <<"&", "l", "t", ";">>>>] :
        c \in [EscapeNames -> {"absent", "skill"}]}

InitEscape ==
    /\ fs = InitFs
    /\ store = NoStore
    /\ outbox = NoOutbox
    /\ skills \in [ws : EscapeRoots, bi : EscapeRoots]
    /\ drivers = NoDrivers
    /\ last = NoCall
    /\ ret = Returned("none", 0)

SpecEscape == InitEscape /\ [][NextSkills]_vars

----------------------------------------------------------------------------
(* Claims about the skill registry *)

HasSkill(root, name) == root.isdir /\ root.child[name] = "skill"
InBoth(name) == HasSkill(skills.ws, name) /\ HasSkill(skills.bi, name)
Entries(infos, name) == {i \in 1..Len(infos) : infos[i].name = name}

\* C9: for every skill name with a manifest in both roots, list_skills
\* returns exactly one entry of that name, its source is "workspace", and
\* read_skill of that name returns the text of the workspace manifest.
\* Checked under SpecSkills.
C9_WorkspaceWins ==
    \A n \in SkillNames :
        InBoth(n) =>
            /\ last.op = "list_skills" =>
                   /\ Cardinality(Entries(ret.v, n)) = 1
                   /\ \A i \in Entries(ret.v, n) : ret.v[i].source = "workspace"
            /\ (last.op = "read_skill" /\ last.name = n) =>
                   /\ ret.t = "text"
                   /\ ret.v = ReadText(ManifestText("workspace", n))

\* the same root enumerated in another order
Reordered(root, order) == [root EXCEPT !.order = order]

SortedByLowerName(infos) ==
    \A i \in 1..(Len(infos) - 1) : StrLeq(LowerText(infos[i].name), LowerText(infos[i + 1].name))

\* C10: for a fixed set of skill directories list_skills returns the same
\* sequence whatever the order of enumeration, sorted by lower-cased name,
\* and build_summary renders that sequence, so its text does not depend on
\* the order of enumeration either.  Checked under SpecSkills.
C10_OrderOfEnumerationIrrelevant ==
    \A ow \in Orders, ob \in Orders :
        LET ws == Reordered(skills.ws, ow)
            bi == Reordered(skills.bi, ob)
        IN  /\ last.op = "list_skills" =>
                   /\ ret.v = ListSkills(ws, bi)
                   /\ SortedByLowerName(ret.v)
            /\ last.op = "build_summary" =>
                   ret.v = JoinLines(<<<<"<", "s", "k", "i", "l", "l", "s", ">">>>>
                                     \o SkillBlocks(ListSkills(ws, bi))
                                     \o <<<<"<", "/", "s", "k", "i", "l", "l", "s", ">">>>>)

\* the listed skill with exactly this name, if any
ListedAs(name) == Entries(ListSkills(skills.ws, skills.bi), name)

\* C11: read_skill(name) returns the manifest text of the listed skill
\* whose name equals the argument as given, and raises a value error when
\* no listed skill has exactly that name or the name is empty or only
\* whitespace.  Checked under SpecSkills.
C11_ExactLookup ==
    last.op = "read_skill" =>
        LET infos == ListSkills(skills.ws, skills.bi)
        IN  IF ListedAs(last.name) # {} /\ Strip(last.name) # <<>>
            THEN /\ ret.t = "text"
                 /\ \A i \in ListedAs(last.name) :
                        ret.v = ReadText(ManifestText(infos[i].source, infos[i].name))
            ELSE ret.t = "raise"

\* a workspace skill directory of this name that holds no manifest file,
\* beside a builtin skill of this name
BareInWorkspace(name) == skills.ws.isdir /\ skills.ws.child[name] = "dir" /\ HasSkill(skills.bi, name)

\* C22: a workspace skill directory without a manifest file does not
\* shadow the builtin skill of the same name: list_skills returns exactly
\* one entry of that name, with source "builtin" and the path of the
\* builtin manifest, and read_skill of that name returns the text of the
\* builtin manifest.  Checked under SpecSkills.
C22_BareDirectoryDoesNotShadow ==
    \A n \in SkillNames :
        BareInWorkspace(n) =>
            /\ last.op = "list_skills" =>
                   /\ Cardinality(Entries(ret.v, n)) = 1
                   /\ \A i \in Entries(ret.v, n) :
                          ret.v[i].source = "builtin" /\ ret.v[i].path = SkillPath("builtin", n)
            /\ (last.op = "read_skill" /\ last.name = n) =>
                   /\ ret.t = "text"
                   /\ ret.v = ReadText(ManifestText("builtin", n))

----------------------------------------------------------------------------
(* Further claims about cron, checked under SpecCron *)

\* the job a successful add has put last in the store
NewJob == LoadCronJobs(store)[Len(LoadCronJobs(store))]

\* the add stored a job with this schedule
AddedWith(schedule) ==
    /\ ret.t = "Created job"
    /\ LoadCronJobs(store) # <<>>
    /\ NewJob.schedule = schedule

\* C12: an add with a non-empty message stores "every:<n>s" whenever
\* every_seconds is supplied (any integer), otherwise "cron:<expr>" whenever
\* cron_expr is supplied, otherwise "at:<timestamp>" whenever at is
\* supplied; the missing-schedule error comes only when none is supplied,
\* and an empty message gets the different missing-message error.
C12_ScheduleBySuppliedArgument ==
    (last.op = "cron" /\ last.action = "add" /\ ret.t # "raise") =>
        LET every_seconds == last.sched[1]
            cron_expr == last.sched[2]
            at == last.sched[3]
        IN  IF last.message = <<>> THEN ret.t = "Error: message is required for add"
            ELSE IF every_seconds.some
                THEN AddedWith(<<"e", "v", "e", "r", "y", ":">> \o Str(every_seconds.v) \o <<"s">>)
            ELSE IF cron_expr.some THEN AddedWith(<<"c", "r", "o", "n", ":">> \o cron_expr.v)
            ELSE IF at.some THEN AddedWith(<<"a", "t", ":">> \o at.v)
            ELSE ret.t = "Error: either every_seconds, cron_expr, or at is required"

\* C13: on a store file that holds no JSON array of job records
\* (unparsable text, an unreadable file, valid JSON of another shape) cron
\* behaves as on an empty store: list returns "No scheduled jobs.", remove
\* reports not-found, add leaves a store holding exactly the new job, and
\* no error reaches the caller.  Checked under SpecStore.
NotAnArray(st) == st = Unparsable \/ st = StoreDir \/ StoreShape(st) # "array"

C13_BadStoreReadAsEmpty ==
    (last.op = "cron" /\ NotAnArray(last.pre)) =>
        /\ ret.t # "raise"
        /\ last.action = "list" => ret.t = "No scheduled jobs."
        /\ (last.action = "remove" /\ last.job_id # "") => ret.t = "Job not found"
        /\ (last.action = "add" /\ last.message # <<>> /\ Schedule(last.sched[1], last.sched[2], last.sched[3]) # <<>>) =>
               /\ ret.t = "Created job"
               /\ StoreShape(store) = "array"
               /\ Len(LoadCronJobs(store)) = 1
               /\ LoadCronJobs(store)[1].message = last.message

----------------------------------------------------------------------------
(* Claims about paths, checked under SpecPath *)

\* C14: every path on which read_file, write_file or edit_file performs a
\* filesystem operation lies at or below the workspace root, whatever the
\* path argument (relative, absolute, tilde-prefixed, with ".." segments).
C14_StaysInWorkspace ==
    last.op \in {"read_file", "write_file", "edit_file"} => StartsWith(PathOf(last.path), Workspace)

----------------------------------------------------------------------------
(* Claims about the output of exec_command, checked under SpecExec *)

Completed == last.op = "exec" /\ last.run.kind = "completed"

StderrBlock == <<"S", "T", "D", "E", "R", "R", ":", LF>> \o last.run.stderr
ExitCodeLine == <<"E", "x", "i", "t", " ", "c", "o", "d", "e", ":", " ">> \o Str(last.run.returncode)

\* the pieces of the output of the last run, joined by line feeds
Pieces ==
    (IF last.run.stdout # <<>> THEN <<last.run.stdout>> ELSE <<>>)
    \o (IF last.run.stderr # <<>> THEN <<StderrBlock>> ELSE <<>>)
    \o (IF last.run.returncode # 0 THEN <<ExitCodeLine>> ELSE <<>>)
Assembled == JoinLines(Pieces)

\* the trailing marker for n omitted characters
Marker(n) ==
    <<LF, ".", ".", ".", " ", "(", "t", "r", "u", "n", "c", "a", "t", "e", "d", ",", " ">> \o Str(n)
    \o <<" ", "m", "o", "r", "e", " ", "c", "h", "a", "r", "s", ")">>

\* the result for an output text of length L: cut after max_len characters
Truncated(text) ==
    IF Len(text) > max_len THEN SubSeq(text, 1, max_len) \o Marker(Len(text) - max_len) ELSE text

\* C15 as stated: with L the length of the assembled output (stdout, the
\* STDERR block, the exit-code line), the result is the first 12000
\* characters and a marker stating L - 12000 when L > 12000, the assembled
\* output unchanged otherwise, and never the empty text.
C15_TruncatedAssembledOutput ==
    Completed => (ret.v = Truncated(Assembled) /\ ret.v # <<>>)

\* C15, amended: the same of the assembled output with the whitespace at
\* its ends removed, "(no output)" standing for an empty one.
Trimmed ==
    IF Strip(Assembled) = <<>> THEN <<"(", "n", "o", " ", "o", "u", "t", "p", "u", "t", ")">> ELSE Strip(Assembled)

C15_TruncatedTrimmedOutput ==
    Completed => (ret.v = Truncated(Trimmed) /\ ret.v # <<>>)

\* a run whose trimmed output was one character too long, and the result
\* says so
C15_Witness ==
    /\ Completed
    /\ Len(Trimmed) = max_len + 1
    /\ Len(ret.v) > max_len
    /\ SubSeq(ret.v, max_len + 1, Len(ret.v)) = Marker(1)

\* C16: for a run that completes with exit code N # 0 the result contains
\* the line "Exit code: N", whatever the amount of output, and when stderr
\* is not empty the result contains "STDERR:" after the stdout text.
C16_ExitCodeAndStderrShown ==
    Completed =>
        /\ last.run.returncode # 0 => Contains(ret.v, ExitCodeLine)
        /\ last.run.stderr # <<>> =>
               \E i \in 1..Len(ret.v) :
                   /\ StartsWith(Drop(ret.v, i - 1), <<"S", "T", "D", "E", "R", "R", ":">>)
                   /\ Contains(SubSeq(ret.v, 1, i - 1), Strip(last.run.stdout))

----------------------------------------------------------------------------
(* web_fetch *)

\* urlsplit: leading spaces and control characters are dropped, and every
\* tab, carriage return and line feed
RECURSIVE WithoutChars(_, _)
WithoutChars(s, C) ==
    IF s = <<>> THEN <<>>
    ELSE (IF Head(s) \in C THEN <<>> ELSE <<Head(s)>>) \o WithoutChars(Tail(s), C)
UrlClean(url) == WithoutChars(LStrip(url), {TAB, CR, LF})

\* the offset of the first character of s that is in C; Len(s) + 1 if none
FirstOf(s, C) ==
    IF \E i \in 1..Len(s) : s[i] \in C
    THEN CHOOSE i \in 1..Len(s) : s[i] \in C /\ \A j \in 1..(i - 1) : s[j] \notin C
    ELSE Len(s) + 1

\* whether the text before the first colon is a scheme
HasScheme(u) ==
    LET colon == FirstOf(u, {":"})
    IN  /\ 1 < colon /\ colon <= Len(u)
        /\ u[1] \in LowerLetters \cup UpperLetters
        /\ \A i \in 1..(colon - 1) : u[i] \in LowerLetters \cup UpperLetters \cup Digits \cup {"+", "-", "."}

\* urlparse(url).scheme and what follows the scheme
UrlScheme(url) ==
    LET u == UrlClean(url) IN IF HasScheme(u) THEN LowerText(SubSeq(u, 1, FirstOf(u, {":"}) - 1)) ELSE <<>>
UrlRest(url) ==
    LET u == UrlClean(url) IN IF HasScheme(u) THEN Drop(u, FirstOf(u, {":"})) ELSE u

\* urlparse(url).netloc: what follows "//", up to the path, query or fragment
UrlNetloc(url) ==
    LET rest == UrlRest(url)
        after == Drop(rest, 2)
    IN  IF StartsWith(rest, <<"/", "/">>) THEN SubSeq(after, 1, FirstOf(after, {"/", "?", "#"}) - 1) ELSE <<>>

\* urlsplit raises ValueError("Invalid IPv6 URL") for a netloc with one bracket
BadBrackets(url) ==
    LET netloc == UrlNetloc(url)
    IN  (\E i \in 1..Len(netloc) : netloc[i] = "[") # (\E i \in 1..Len(netloc) : netloc[i] = "]")

\* urlparse(url).hostname, <<>> for None
UrlHostname(url) ==
    LET netloc == UrlNetloc(url)
        ats == {i \in 1..Len(netloc) : netloc[i] = "@"}
        hostport == IF ats = {} THEN netloc ELSE Drop(netloc, CHOOSE i \in ats : \A j \in ats : j <= i)
    IN  IF hostport # <<>> /\ Head(hostport) = "["
        THEN LowerText(SubSeq(hostport, 2, FirstOf(hostport, {"]"}) - 1))
        ELSE LowerText(SubSeq(hostport, 1, FirstOf(hostport, {":"}) - 1))

\* _validate_http_url: ok, or the error text
ValidateHttpUrl(url) ==
    IF BadBrackets(url) THEN "Invalid IPv6 URL"
    ELSE IF UrlScheme(url) \notin {<<"h", "t", "t", "p">>, <<"h", "t", "t", "p", "s">>} THEN "Only http/https URLs are supported."
    ELSE IF UrlNetloc(url) = <<>> THEN "URL must include a domain."
    ELSE "ok"

\* what urlopen may do: raise HTTPError, URLError or another exception, or
\* give a response, of which the model keeps the extractor chosen from its
\* content type and body and the length of the extracted text
Responses ==
    {[kind |-> k, extractor |-> "", length |-> 0] : k \in {"HTTPError", "URLError", "Exception"}}
    \cup {[kind |-> "response", extractor |-> e, length |-> n] : e \in {"json", "html", "raw"}, n \in {0, 3}}

WebCall(url, max_chars, requested) ==
    [op |-> "web_fetch", url |-> url, max_chars |-> max_chars, requested |-> requested]

\* web_fetch: the record it returns, as the fields json.dumps writes
web_fetch(url, max_chars) ==
    /\ UNCHANGED <<fs, store, outbox, skills, drivers>>
    /\ IF ValidateHttpUrl(url) # "ok" THEN
           /\ ret' = Returned("error record", [error |-> ValidateHttpUrl(url), url |-> url])
           /\ last' = WebCall(url, max_chars, FALSE)
       ELSE
           \E r \in Responses :
               /\ last' = WebCall(url, max_chars, TRUE)
               /\ ret' = IF r.kind = "HTTPError" THEN Returned("error record", [error |-> "HTTP 404", url |-> url])
                         ELSE IF r.kind = "URLError" THEN Returned("error record", [error |-> "Network error", url |-> url])
                         ELSE IF r.kind = "Exception" THEN Returned("error record", [error |-> "Exception", url |-> url])
                         ELSE Returned("record", [url |-> url, status |-> 200, extractor |-> r.extractor,
                                                  truncated |-> r.length > max_chars,
                                                  length |-> IF r.length > max_chars THEN max_chars ELSE r.length])

\* the urls and the limits web_fetch is called with
Urls == {
    <<"h", "t", "t", "p", ":", "/", "/", "h", "/", "x">>,
    <<"h", "t", "t", "p", "s", ":", "/", "/", "h">>,
    <<"H", "T", "T", "P", ":", "/", "/", "h", "/">>,
    <<"h", "t", "t", "p", ":", "/", "/", ":", "8", "0", "/">>,
    <<"h", "t", "t", "p", ":", "/", "/", "@", "/", "x">>,
    <<"h", "t", "t", "p", ":", "/", "/", "u", "@", "/", "x">>,
    <<"h", "t", "t", "p", ":", "/", "/", "/", "x">>,
    <<"h", "t", "t", "p", ":", "/", "x">>,
    <<"h", "t", "t", "p", ":", "x">>,
    <<"/", "/", "h", "/", "x">>,
    <<"h", "/", "x">>,
    <<>>,
    <<"f", "i", "l", "e", ":", "/", "/", "/", "e", "t", "c", "/", "p", "a", "s", "s", "w", "d">>,
    <<"f", "t", "p", ":", "/", "/", "h", "/", "x">>,
    <<"h", "t", "t", "p", "s", ":", "/", "/", "h", ":", "8", "/", "?", "q", "#", "f">>,
    <<"h", "t", "t", "p", ":", "/", "/", "h", "?", "x">>,
    <<" ", "h", "t", "t", "p", ":", "/", "/", "h">>,
    <<"h", "t", "t", "p", ":", "/", "/", "[", ":", ":", "1">>,
    <<"j", "a", "v", "a", "s", "c", "r", "i", "p", "t", ":", "a", "l", "e", "r", "t", "(", "1", ")">>,
    <<"h", "t", "t", "p", "x", ":", "/", "/", "h">>,
    <<"h", "t", "t", "p", ":", "/", "/", "u", "@", "h", "/">>,
    <<"h", "t", "t", "p", ":", "/", "/", "?", "q">>,
    <<"1", "h", "t", "t", "p", ":", "/", "/", "h">>,
    <<"h", "t", "t", "p", ":", "/", "/", "h", "/", LF>>,
    <<"h", "t", "t", "p", ":", "/", "/", "[", ":", ":", "1", "]", ":", "8", "/", "x">>}
MaxChars == {2, 50000}

InitWeb ==
    /\ fs = InitFs
    /\ store = NoStore
    /\ outbox = NoOutbox
    /\ skills = NoSkills
    /\ drivers = NoDrivers
    /\ last = NoCall
    /\ ret = Returned("none", 0)

NextWeb == \E u \in Urls, m \in MaxChars : web_fetch(u, m)

SpecWeb == InitWeb /\ [][NextWeb]_vars

\* C17: for every url whose scheme is neither http nor https, or that has
\* no host, web_fetch returns a record with an error field and the url as
\* given, and makes no network request.  Checked under SpecWeb.
C17_NoRequestWithoutSchemeAndHost ==
    (last.op = "web_fetch"
        /\ (UrlScheme(last.url) \notin {<<"h", "t", "t", "p">>, <<"h", "t", "t", "p", "s">>} \/ UrlHostname(last.url) = <<>>)) =>
        /\ ret.t = "error record"
        /\ ret.v.url = last.url
        /\ ~last.requested

----------------------------------------------------------------------------
(* Further claims about message, checked under SpecMsg *)

\* the text a JSON string literal (without its quotes) stands for
RECURSIVE JsonUnescape(_)
JsonUnescape(e) ==
    IF e = <<>> THEN <<>>
    ELSE IF Head(e) = "\\" /\ Len(e) >= 2 THEN
        <<CASE e[2] = "n" -> LF [] e[2] = "r" -> CR [] e[2] = "t" -> TAB [] OTHER -> e[2]>> \o JsonUnescape(Drop(e, 2))
    ELSE <<Head(e)>> \o JsonUnescape(Tail(e))

\* the quotes of a literal that no backslash precedes
RECURSIVE BareQuotes(_)
BareQuotes(e) ==
    IF e = <<>> THEN 0
    ELSE IF Head(e) = "\\" /\ Len(e) >= 2 THEN BareQuotes(Drop(e, 2))
    ELSE (IF Head(e) = "\"" THEN 1 ELSE 0) + BareQuotes(Tail(e))

\* the line is one JSON object whose channel, chat_id and content are those
\* of the last call
IsRecordOfLastCall(line) ==
    \E now \in Times :
        LET head == <<"{", "\"", "t", "i", "m", "e", "s", "t", "a", "m", "p", "\"", ":", " ", "\"">> \o now \o <<"\"", ",", " ", "\"", "c", "h", "a", "n", "n", "e", "l", "\"", ":", " ", "\"">> \o last.channel \o <<"\"", ",", " ", "\"", "c", "h", "a", "t", "_", "i", "d", "\"", ":", " ", "\"">> \o last.chat_id \o <<"\"", ",", " ", "\"", "c", "o", "n", "t", "e", "n", "t", "\"", ":", " ", "\"">>
            e == SubSeq(line, Len(head) + 1, Len(line) - 2)
        IN  /\ StartsWith(line, head)
            /\ Len(line) >= Len(head) + 2
            /\ SubSeq(line, Len(line) - 1, Len(line)) = <<"\"", "}">>
            /\ BareQuotes(e) = 0
            /\ \A i \in 1..Len(e) : e[i] \notin {LF, CR, TAB}
            /\ JsonUnescape(e) = last.content

\* C18: each successful message call adds exactly one line to the end of
\* the outbox log and leaves the earlier lines as they were; the line is
\* one JSON object with the channel, chat id and content of the call,
\* whatever the content (line breaks included).
C18_OneLineAppended ==
    (last.op = "message" /\ ret.t = "Message recorded") =>
        /\ StartsWith(outbox.text, last.pre.text)
        /\ LineCount(outbox.text) = LineCount(last.pre.text) + 1
        /\ outbox.text[Len(outbox.text)] = LF
        /\ IsRecordOfLastCall(SubSeq(outbox.text, Len(last.pre.text) + 1, Len(outbox.text) - 1))

\* a second message, whose content holds a line break and a quote, was
\* recorded after a first one
C18_Witness ==
    /\ last.op = "message"
    /\ ret.t = "Message recorded"
    /\ LF \in Range(last.content)
    /\ "\"" \in Range(last.content)
    /\ LineCount(last.pre.text) = 1
    /\ LineCount(outbox.text) = 2

----------------------------------------------------------------------------
(* Claims about build_summary, checked under SpecEscape *)

\* every character escaped on its own: & < > by their entities, every
\* other character by itself
EscapedChar(c) ==
    CASE c = "&" -> <<"&", "a", "m", "p", ";">>
      [] c = "<" -> <<"&", "l", "t", ";">>
      [] c = ">" -> <<"&", "g", "t", ";">>
      [] OTHER -> <<c>>
RECURSIVE EscapedOnce(_)
EscapedOnce(text) == IF text = <<>> THEN <<>> ELSE EscapedChar(Head(text)) \o EscapedOnce(Tail(text))

\* the three escaped lines of every listed skill, in order
RECURSIVE EscapedFields(_)
EscapedFields(infos) ==
    IF infos = <<>> THEN <<>>
    ELSE <<<<" ", " ", " ", " ", "<", "n", "a", "m", "e", ">">> \o EscapedOnce(Head(infos).name) \o <<"<", "/", "n", "a", "m", "e", ">">>,
           <<" ", " ", " ", " ", "<", "d", "e", "s", "c", "r", "i", "p", "t", "i", "o", "n", ">">> \o EscapedOnce(Head(infos).description) \o <<"<", "/", "d", "e", "s", "c", "r", "i", "p", "t", "i", "o", "n", ">">>,
           <<" ", " ", " ", " ", "<", "l", "o", "c", "a", "t", "i", "o", "n", ">">> \o EscapedOnce(Head(infos).path) \o <<"<", "/", "l", "o", "c", "a", "t", "i", "o", "n", ">">>>>
         \o EscapedFields(Tail(infos))

\* the name, description and location lines of a summary, in order
FieldLines(summary) ==
    LET lines == Split(summary, LF)
    IN  SelectSeq(lines, LAMBDA l : StartsWith(l, <<" ", " ", " ", " ", "<", "n", "a", "m", "e", ">">>) \/ StartsWith(l, <<" ", " ", " ", " ", "<", "d", "e", "s", "c", "r", "i", "p", "t", "i", "o", "n", ">">>) \/ StartsWith(l, <<" ", " ", " ", " ", "<", "l", "o", "c", "a", "t", "i", "o", "n", ">">>))

\* C19: in build_summary every & < > of a name, description and location
\* is rendered as &amp; &lt; &gt;, each character escaped exactly once,
\* and every other character is rendered unchanged.
C19_EscapedExactlyOnce ==
    last.op = "build_summary" => FieldLines(ret.v) = EscapedFields(ListSkills(skills.ws, skills.bi))

\* a summary of skills whose names hold & < > and the text "&lt;"
C19_Witness ==
    /\ last.op = "build_summary"
    /\ Contains(ret.v, <<" ", " ", " ", " ", "<", "n", "a", "m", "e", ">">> \o <<"&", "l", "t", ";", "&", "a", "m", "p", ";", "&", "g", "t", ";">> \o <<"<", "/", "n", "a", "m", "e", ">">>)
    /\ Contains(ret.v, <<" ", " ", " ", " ", "<", "n", "a", "m", "e", ">">> \o <<"&", "a", "m", "p", ";", "l", "t", ";">> \o <<"<", "/", "n", "a", "m", "e", ">">>)
    /\ Contains(ret.v, <<" ", " ", " ", " ", "<", "d", "e", "s", "c", "r", "i", "p", "t", "i", "o", "n", ">">> \o <<"W", " ", "&", "l", "t", ";", "a", "&", "g", "t", ";">> \o <<"<", "/", "d", "e", "s", "c", "r", "i", "p", "t", "i", "o", "n", ">">>)
    /\ Contains(ret.v, <<"/", "w", "/", "s", "k", "i", "l", "l", "s", "/", "&", "l", "t", ";", "&", "a", "m", "p", ";", "&", "g", "t", ";", "/", "S", "K", "I", "L", "L", ".", "m", "d", "<", "/", "l", "o", "c", "a", "t", "i", "o", "n", ">">>)

----------------------------------------------------------------------------
(* The text of a result *)

\* the characters with which the result text of each kind begins in the
\* source; <<>> for a result that is the text read or printed
HeadText(tag) ==
    CASE tag = "Error: File not found" -> <<"E", "r", "r", "o", "r", ":", " ", "F", "i", "l", "e", " ", "n", "o", "t", " ", "f", "o", "u", "n", "d", ":", " ">>
      [] tag = "Error: Not a file" -> <<"E", "r", "r", "o", "r", ":", " ", "N", "o", "t", " ", "a", " ", "f", "i", "l", "e", ":", " ">>
      [] tag = "Error writing file" -> <<"E", "r", "r", "o", "r", " ", "w", "r", "i", "t", "i", "n", "g", " ", "f", "i", "l", "e", ":", " ">>
      [] tag = "Error editing file" -> <<"E", "r", "r", "o", "r", " ", "e", "d", "i", "t", "i", "n", "g", " ", "f", "i", "l", "e", ":", " ">>
      [] tag = "Error: old_text not found in file" -> <<"E", "r", "r", "o", "r", ":", " ", "o", "l", "d", "_", "t", "e", "x", "t", " ", "n", "o", "t", " ", "f", "o", "u", "n", "d", " ", "i", "n", " ", "f", "i", "l", "e", ".", " ", "M", "a", "k", "e", " ", "s", "u", "r", "e", " ", "i", "t", " ", "m", "a", "t", "c", "h", "e", "s", " ", "e", "x", "a", "c", "t", "l", "y", ".">>
      [] tag = "Warning: old_text appears" -> <<"W", "a", "r", "n", "i", "n", "g", ":", " ", "o", "l", "d", "_", "t", "e", "x", "t", " ", "a", "p", "p", "e", "a", "r", "s", " ">>
      [] tag = "Successfully wrote" -> <<"S", "u", "c", "c", "e", "s", "s", "f", "u", "l", "l", "y", " ", "w", "r", "o", "t", "e", " ">>
      [] tag = "Successfully edited" -> <<"S", "u", "c", "c", "e", "s", "s", "f", "u", "l", "l", "y", " ", "e", "d", "i", "t", "e", "d", " ">>
      [] tag = "Error: Command blocked by safety guard" -> <<"E", "r", "r", "o", "r", ":", " ", "C", "o", "m", "m", "a", "n", "d", " ", "b", "l", "o", "c", "k", "e", "d", " ", "b", "y", " ", "s", "a", "f", "e", "t", "y", " ", "g", "u", "a", "r", "d", " ", "(", "d", "a", "n", "g", "e", "r", "o", "u", "s", " ", "p", "a", "t", "t", "e", "r", "n", " ", "d", "e", "t", "e", "c", "t", "e", "d", ")">>
      [] tag = "Error: Command timed out" -> <<"E", "r", "r", "o", "r", ":", " ", "C", "o", "m", "m", "a", "n", "d", " ", "t", "i", "m", "e", "d", " ", "o", "u", "t", " ", "a", "f", "t", "e", "r", " ">>
      [] tag = "Error executing command" -> <<"E", "r", "r", "o", "r", " ", "e", "x", "e", "c", "u", "t", "i", "n", "g", " ", "c", "o", "m", "m", "a", "n", "d", ":", " ">>
      [] OTHER -> <<>>

\* the results the file tools and exec_command give when nothing went wrong
Successes == {"text", "Successfully wrote", "Successfully edited"}

\* C20: every result that read_file, write_file, edit_file and
\* exec_command return for an error condition begins with "Error: ",
\* except the ambiguous-edit result, which begins with "Warning: ".
\* Checked under SpecFile.
C20_ErrorPrefix ==
    (last.op \in {"read_file", "write_file", "edit_file", "exec"} /\ ret.t \notin Successes \cup {"raise"}) =>
        IF ret.t = "Warning: old_text appears"
        THEN StartsWith(HeadText(ret.t), <<"W", "a", "r", "n", "i", "n", "g", ":", " ">>)
        ELSE StartsWith(HeadText(ret.t), <<"E", "r", "r", "o", "r", ":", " ">>)


----------------------------------------------------------------------------
(* Claims about cron called by several drivers, checked under SpecRace *)

\* the ids of the jobs of a list
IdsOf(jobs) == {jobs[i].id : i \in 1..Len(jobs)}

\* no call is in progress, and no two calls were ever in progress together
Quiet == \A d \in Drivers : ~InProgress(d)
OneAtATime == \A d \in Drivers : ~drivers[d].overlapped

\* the step in which the add of driver d saves its list and reports
\* 'Created job'
AddReturns(d) == drivers[d].pc = "opened" /\ drivers[d].action = "add" /\ drivers'[d].pc = "idle" /\ ret'.t = "Created job"

\* the last write wins: when an add returns 'Created job', the store file
\* holds the list that call loaded followed by its own job (or, when
\* another process wrote a longer text since this call opened the file, a
\* text that is no JSON), so no job that another call reported created
\* since this call loaded the file is in the store, unless its id is the
\* id of a job of this list
LastWriteWins ==
    \A d \in Drivers :
        AddReturns(d) =>
            /\ Len(drivers[d].jobs) = Len(drivers[d].loaded) + 1
            /\ SubSeq(drivers[d].jobs, 1, Len(drivers[d].loaded)) = drivers[d].loaded
            /\ drivers[d].jobs[Len(drivers[d].jobs)].id = ret'.v.id
            /\ store' = JsonFile(drivers[d].jobs) \/ store' = Mixed(StoreLen(store))
            /\ \A id \in drivers[d].raced \ IdsOf(drivers[d].jobs) : id \notin IdsOf(LoadCronJobs(store'))

\* in calls made one at a time, every job the last call loaded is in the
\* store after it, unless the call reports the removal of its id, and the
\* job of an add that reports 'Created job' is in the store
SerialKeeps ==
    (OneAtATime /\ Quiet /\ last.op = "cron") =>
        /\ \A i \in 1..Len(last.loaded) :
               \/ ret.t = "Removed job" /\ ret.v = last.loaded[i].id
               \/ last.loaded[i] \in Range(LoadCronJobs(store))
        /\ ret.t = "Created job" => last.jobs[Len(last.jobs)] \in Range(LoadCronJobs(store))

\* C21: the read-modify-write of the cron store is not atomic.  When two
\* add calls of different drivers interleave their load and save steps,
\* both can report 'Created job' while the store afterwards holds only the
\* job of the call that saved last; when calls run one at a time, no job
\* whose add reported success is missing from the store before its
\* remove.  Checked under SpecRace.
C21_LastWriteWinsSerialKeeps == [][LastWriteWins]_vars /\ []SerialKeeps

\* the first half of C21 alone
C21_LastWriteWins == [][LastWriteWins]_vars

\* two adds that both reported 'Created job' and a store that holds only
\* the job of the one that saved last
C21_BothCreatedOneKept ==
    /\ Quiet
    /\ last.op = "cron"
    /\ last.action = "add"
    /\ ret.t = "Created job"
    /\ store = JsonFile(last.jobs)
    /\ \E id \in last.raced : id \notin IdsOf(last.jobs)

----------------------------------------------------------------------------
(* The order of the jobs in the store, checked under SpecCron *)

\* the positions of the jobs whose id is not job_id
Others(jobs, job_id) == {i \in 1..Len(jobs) : jobs[i].id # job_id}

\* `after` holds the jobs of `before` whose id is not job_id, each as it
\* was and in the same relative order
OthersKept(before, after, job_id) ==
    LET others == Others(before, job_id)
    IN  /\ Len(after) = Cardinality(others)
        /\ \A i \in others : after[Cardinality({k \in others : k <= i})] = before[i]

====
